---- MODULE Spec2Model ----
(***************************************************************************)
(* Model of the Storacha bridge backend (src/index.js): the CAR packing    *)
(* of a payload (bytesToCar, carCid) and the three-phase upload handler    *)
(* POST /storacha/upload (store/add -> PUT -> upload/add), together with   *)
(* GET /storacha/debug/list.  Every HTTP request handled by the server is  *)
(* a call; calls interleave at their await points.  Spec follows the       *)
(* handlers with bytesToCar as one step, SpecCar follows bytesToCar and    *)
(* carCid block by block, FairSpec adds that awaited network calls settle. *)
(***************************************************************************)
EXTENDS Integers, Sequences, FiniteSets, TLC

\* ------------------------------------------------------------------ bounds
\* Longest contentBase64 string a request carries (in base64 digits).
MaxB64Len == 3
\* The chunker's maximum chunk size in bytes (1 MiB in ipfs-car), scaled down.
MaxChunkSize == 1

\* Longest payload handed to bytesToCar when it is followed step by step.
MaxPayloadLen == 3

\* The requests in flight: two concurrent HTTP requests.
Calls == {"c1", "c2"}
\* The runs of bytesToCar followed step by step: two concurrent runs.
Runs == {"r1", "r2"}
\* The byte values their payloads are built from.
PayloadBytes == {0, 255}
\* The most tokens the contract is asked to mint.
MaxTokens == 3
\* The latest reading of the clock (Date.now(), in milliseconds from start).
MaxClock == 1
\* The birth registrations in flight: two concurrent requests.
Regs == {"g1", "g2"}
\* The base64 digit a request is built from: 'A' (0); payloads differ in
\* their length.
B64Digits == {0}

\* --------------------------------------------------------- JSON values
\* A JavaScript/JSON value is tagged with its type, so that values of
\* different types can be compared.
Undefined == [t |-> "undefined"]
Null == [t |-> "null"]
Str(s) == [t |-> "string", v |-> s]
Num(n) == [t |-> "number", v |-> n]
Bool(b) == [t |-> "boolean", v |-> b]
Obj(r) == [t |-> "object", v |-> r]
Arr(q) == [t |-> "array", v |-> q]
EmptyObj == Obj([f \in {} |-> Undefined])
\* a string of base64 digits (the contentBase64 of a request)
B64Str(ds) == [t |-> "base64string", v |-> ds]
\* a Buffer / Uint8Array
Buf(bs) == [t |-> "bytes", v |-> bs]

\* JavaScript truthiness: undefined, null, false, 0 and '' are falsy.
Truthy(j) ==
    ~ \/ j.t \in {"undefined", "null"}
      \/ j.t = "string" /\ j.v = ""
      \/ j.t = "base64string" /\ j.v = <<>>
      \/ j.t = "number" /\ j.v = 0
      \/ j.t = "boolean" /\ j.v = FALSE
\* j?.f : undefined when j is undefined/null or has no property f.
Get(j, f) == IF j.t = "object" /\ f \in DOMAIN j.v THEN j.v[f] ELSE Undefined
\* j[0] on a value known to be truthy.
At0(j) == IF j.t = "array" /\ Len(j.v) > 0 THEN j.v[1] ELSE Undefined
\* a || b
OrElse(a, b) == IF Truthy(a) THEN a ELSE b

\* ----------------------------------------------------------------- bytes
\* A byte sequence is a sequence of segments: a literal byte, or the 32
\* bytes of a sha2-256 digest of a byte sequence (kept symbolic).
B(n) == [t |-> "byte", v |-> n]
H(input) == [t |-> "sha2-256", v |-> input]
Width(seg) == IF seg.t = "byte" THEN 1 ELSE 32

RECURSIVE ByteLength(_)
\* Buffer.length / Uint8Array.length
ByteLength(bs) == IF bs = <<>> THEN 0 ELSE Width(Head(bs)) + ByteLength(Tail(bs))

Lit(ns) == [i \in 1..Len(ns) |-> B(ns[i])]

RECURSIVE Varint(_)
\* unsigned LEB128, as used by multiformats and the CAR framing
Varint(n) == IF n < 128 THEN <<B(n)>> ELSE <<B(128 + (n % 128))>> \o Varint(n \div 128)

RECURSIVE Pow(_, _)
Pow(b, e) == IF e = 0 THEN 1 ELSE b * Pow(b, e - 1)

RECURSIVE DigitsValue(_)
DigitsValue(ds) == IF ds = <<>> THEN 0 ELSE DigitsValue(SubSeq(ds, 1, Len(ds) - 1)) * 64 + ds[Len(ds)]

\* Buffer.from(contentBase64, 'base64'): every digit carries 6 bits, every
\* complete group of 8 bits is a byte, trailing bits are dropped.
Base64Decode(ds) ==
    LET n == (6 * Len(ds)) \div 8
        v == DigitsValue(ds)
    IN [k \in 1..n |-> (v \div Pow(2, 6 * Len(ds) - 8 * k)) % 256]

\* ---------------------------------------------------- content identifiers
\* multicodec codes of the block encoders ipfs-car uses, and of sha2-256
RAW_CODE == 85
DAG_PB_CODE == 112
SHA2_256_CODE == 18
\* multicodec 0x0202
CAR_CODE == 514

\* sha256.digest(bytes): a multihash { code, size, digest }
sha256digest(bytes) == [code |-> SHA2_256_CODE, size |-> 32, digest |-> H(bytes)]
\* CID.createV1(code, multihash)
createV1(code, mh) == [version |-> 1, code |-> code, multihash |-> mh]
\* cid.bytes: <version><codec><hash code><hash size><digest>
CidBytes(cid) ==
    <<B(cid.version)>> \o Varint(cid.code) \o Varint(cid.multihash.code)
        \o Varint(cid.multihash.size) \o <<cid.multihash.digest>>
\* cid.toString(): the multibase base32 text of cid.bytes ("b...").
\* base32 is one-to-one on byte sequences; the text is kept as the bytes
\* it spells.
CidToString(cid) == [t |-> "cidstring", v |-> CidBytes(cid)]

\* --------------------------------------------------- chunker / DAG builder
\* A block: { cid, bytes }, the cid computed from the bytes by the encoder.
Block(code, bytes) == [cid |-> createV1(code, sha256digest(bytes)), bytes |-> bytes]

RECURSIVE Chunks(_)
\* fixed-size chunker: pieces of MaxChunkSize bytes, the last one shorter
Chunks(bs) ==
    IF Len(bs) <= MaxChunkSize THEN <<bs>>
    ELSE <<SubSeq(bs, 1, MaxChunkSize)>> \o Chunks(SubSeq(bs, MaxChunkSize + 1, Len(bs)))

RECURSIVE Concat(_)
Concat(seqs) == IF seqs = <<>> THEN <<>> ELSE Head(seqs) \o Concat(Tail(seqs))

RECURSIVE Sum(_)
Sum(ns) == IF ns = <<>> THEN 0 ELSE Head(ns) + Sum(Tail(ns))

\* dag-pb PBLink { Hash = cid, Name = "", Tsize }
PBLink(leaf) ==
    LET body == <<B(10)>> \o Varint(ByteLength(CidBytes(leaf.cid))) \o CidBytes(leaf.cid)
                    \o <<B(18), B(0)>>
                    \o <<B(24)>> \o Varint(ByteLength(leaf.bytes))
    IN <<B(18)>> \o Varint(ByteLength(body)) \o body

\* UnixFS Data { Type = File, filesize, blocksizes }
UnixFSFileData(sizes) ==
    <<B(8), B(2)>>
        \o <<B(24)>> \o Varint(Sum(sizes))
        \o Concat([i \in 1..Len(sizes) |-> <<B(32)>> \o Varint(sizes[i])])

\* dag-pb PBNode { Links, Data }: links first, then the Data field
PBNode(leaves) ==
    LET data == UnixFSFileData([i \in 1..Len(leaves) |-> ByteLength(leaves[i].bytes)])
    IN Concat([i \in 1..Len(leaves) |-> PBLink(leaves[i])])
        \o <<B(10)>> \o Varint(ByteLength(data)) \o data

\* createFileEncoderStream(file): the blocks of the UnixFS file DAG in the
\* order they are written, leaves first and the root last.  An empty file
\* is one dag-pb node with no links, a file of one chunk is one raw block,
\* a longer file is its raw leaves followed by the dag-pb node linking them.
createFileEncoderStream(bytes) ==
    LET chunks == Chunks(bytes)
        leaves == [i \in 1..Len(chunks) |-> Block(RAW_CODE, Lit(chunks[i]))]
    IN IF Len(bytes) = 0 THEN <<Block(DAG_PB_CODE, PBNode(<<>>))>>
       ELSE IF Len(chunks) = 1 THEN leaves
       ELSE leaves \o <<Block(DAG_PB_CODE, PBNode(leaves))>>

\* --------------------------------------------------------- archive encoder
\* dag-cbor { roots: [cid, ...], version: 1 }
CarHeaderBody(roots) ==
    <<B(162), B(101)>> \o Lit(<<114, 111, 111, 116, 115>>)
        \o <<B(128 + Len(roots))>>
        \o Concat([i \in 1..Len(roots) |->
                     <<B(216), B(42), B(88), B(ByteLength(CidBytes(roots[i])) + 1), B(0)>>
                         \o CidBytes(roots[i])])
        \o <<B(103)>> \o Lit(<<118, 101, 114, 115, 105, 111, 110>>) \o <<B(1)>>

\* the chunk CAREncoderStream enqueues for one block: varint(len) cid bytes
CarBlockFrame(block) ==
    Varint(ByteLength(CidBytes(block.cid)) + ByteLength(block.bytes))
        \o CidBytes(block.cid) \o block.bytes

\* new CAREncoderStream(roots): the header chunk, then one chunk per block
\* in the order the blocks are read
CAREncoderStream(roots, blocks) ==
    <<Varint(ByteLength(CarHeaderBody(roots))) \o CarHeaderBody(roots)>>
        \o [i \in 1..Len(blocks) |-> CarBlockFrame(blocks[i])]

\* bytesToCar(bytes): { rootCid, carBytes }
bytesToCar(bytes) ==
    LET blocks == createFileEncoderStream(bytes)
        rootCID == blocks[Len(blocks)].cid
        carChunks == CAREncoderStream(<<rootCID>>, blocks)
    IN [rootCid |-> CidToString(rootCID), carBytes |-> Concat(carChunks)]

\* mutant: the CAR CID is built with the raw codec
carCid_RawCode(carBytes) == CidToString(createV1(RAW_CODE, sha256digest(carBytes)))
\* carCid(carBytes): the CAR CID as text
carCid(carBytes) == CidToString(createV1(CAR_CODE, sha256digest(carBytes)))

\* ------------------------------------------------------------ environment
STORACHA_BRIDGE_URL == "https://up.storacha.network/bridge"
\* process.env values a deployment may have; "" is an unset variable
Secrets == {"", "secret"}
Auths == {"", "ucan"}
SpaceDids == {"", "did:key:space"}
\* GATEWAY_BASE as text pieces: the default 'https://w3s.link/ipfs/' and a
\* configured base without trailing slash
GatewayBases == {<<Str("https://w3s.link/ipfs"), Str("/")>>, <<Str("https://gw.example/ipfs")>>}

\* what a client may send as fileName and as contentBase64
FileNames == {Undefined, Str(""), Str("cert.pdf")}
B64Strings == UNION {[1..n -> B64Digits] : n \in 0..MaxB64Len}
Contents == {Undefined} \cup {B64Str(ds) : ds \in B64Strings}

SignedUrl == Str("https://carpark.example/signed")
SignedHeaders == Obj([checksum |-> Str("x-amz-checksum-sha256")])

\* results[0] of a bridge answer
Result(out) == Obj([results |-> Arr(<<Obj([out |-> out])>>)])
\* bodies the bridge may answer store/add with under a success HTTP status
StoreAddDatas ==
    { Result(Obj([ok |-> Obj([url |-> SignedUrl, headers |-> SignedHeaders])])),
      Result(Obj([ok |-> Obj([url |-> SignedUrl])])),
      Result(Obj([error |-> Obj([name |-> Str("InsufficientStorage")])])),
      Obj([error |-> Str("invalid request")]),
      Str("") }
\* bodies the bridge may answer upload/add with under a success HTTP status
UploadAddDatas ==
    { Result(Obj([ok |-> EmptyObj])),
      Result(Obj([error |-> Obj([name |-> Str("Unauthorized")])])) }
UploadListDatas == { Result(Obj([ok |-> Obj([results |-> Arr(<<>>)])])) }

\* the errors axios rejects with: an HTTP error status with a body, one with
\* an empty body, and a transport error without any response
HttpError(data) ==
    Obj([response |-> Obj([status |-> Num(401), data |-> data]),
         message |-> Str("Request failed with status code 401")])
NetworkError == Obj([message |-> Str("Network Error")])
BridgeErrors ==
    { HttpError(Obj([error |-> Str("Unauthorized")])), HttpError(Str("")), NetworkError }
PutErrors == { HttpError(Str("<Error>AccessDenied</Error>")), NetworkError }

\* ------------------------------------------------------------------ state
VARIABLES
    env,        \* process.env, read once at start-up
    pc,         \* where each call is: idle, awaiting a network call, done
    req,        \* the HTTP request of each call
    local,      \* the handler's local variables of each call
    trace,      \* per call, the network requests issued and their outcomes
    responses,  \* per call, the HTTP responses sent to the client
    cpc,        \* where each run of bytesToCar / carCid is
    file,       \* per run, the bytes argument
    pending,    \* per run, the blocks the chunker has still to write
    blocks,     \* per run, the local array blocks
    emitted,    \* per run, every block the chunker wrote so far (history)
    rootCID,    \* per run, the local rootCID
    carChunks,  \* per run, the local array carChunks
    out,        \* per run, { rootCid, carBytes } and the CAR CID
    nft,        \* the storage of the deployed BirthCertificateNFT contract
    assigned,   \* the token IDs returned by successful mints, in order (history)
    lastCall,   \* the last call made to the contract and its outcome (history)
    boot,       \* where startServer of the birth-registration server is
    proc,       \* its module-level variables, the clock and uploads/
    rpc,        \* where each birth registration is
    rreq,       \* the request of each birth registration
    rloc,       \* the handler's local variables of each birth registration
    rtrace,     \* per registration, the calls awaited and their outcomes
    rresp       \* per registration, the HTTP responses sent

srvVars == <<env, pc, req, local, trace, responses>>
encVars == <<cpc, file, pending, blocks, emitted, rootCID, carChunks, out>>
nftVars == <<nft, assigned, lastCall>>
regVars == <<boot, proc, rpc, rreq, rloc, rtrace, rresp>>
vars == <<env, pc, req, local, trace, responses,
          cpc, file, pending, blocks, emitted, rootCID, carChunks, out,
          nft, assigned, lastCall, boot, proc, rpc, rreq, rloc, rtrace, rresp>>

NoLocals ==
    [bytes |-> Undefined, rootCid |-> Undefined, carBytes |-> Undefined,
     size |-> Undefined, shardCid |-> Undefined, putUrl |-> Undefined,
     putHeaders |-> Undefined]

\* ------------------------------------------------- BirthCertificateNFT
\* address(0), the deployer (the contract's owner, the backend wallet), an
\* account, and a contract that does not implement IERC721Receiver
ZeroAddress == "0x0"
Deployer == "deployer"
NoReceiver == "noReceiver"
Addresses == {ZeroAddress, Deployer, "alice", NoReceiver}
TokenIds == 0..MaxTokens

\* constructor: ERC721(...), Ownable(msg.sender), _tokenIdCounter = 0
NftConstructed ==
    [_tokenIdCounter |-> 0,
     _owners |-> [i \in TokenIds |-> ZeroAddress],
     _balances |-> [a \in Addresses |-> 0],
     _tokenURIs |-> [i \in TokenIds |-> Null],
     certificates |-> [i \in TokenIds |-> [certificateCID |-> Null, verified |-> FALSE]],
     _owner |-> Deployer]
NoCall == [fn |-> "none", reverted |-> FALSE, ret |-> Null]
\* the contract is deployed and no call was made to it
NftDeployed ==
    /\ nft = NftConstructed
    /\ assigned = <<>>
    /\ lastCall = NoCall

\* -------------------------------------------- birth-registration server
NoRegLocals ==
    [certificateId |-> Null, supportingDocumentCid |-> Null, certificateCid |-> Null,
     imageCid |-> Null, metadataCid |-> Null, tx |-> Null, nftTokenId |-> Null,
     nftTransactionHash |-> Null]
\* the module is loaded: storachaClient, currentSpace and nftContract are
\* null, uploads/ holds no temporary file
ProcLoaded ==
    [build |-> "none", listening |-> FALSE,
     storachaClient |-> Null, currentSpace |-> Null, nftContract |-> Null,
     now |-> 0, uploads |-> {}, clientAssignments |-> 0,
     unlinkCalls |-> [g \in Regs |-> 0]]
\* startServer() has not been called, no request has arrived
RegIdle ==
    /\ boot = "loaded"
    /\ proc = ProcLoaded
    /\ rpc = [g \in Regs |-> "idle"]
    /\ rreq = [g \in Regs |-> Undefined]
    /\ rloc = [g \in Regs |-> NoRegLocals]
    /\ rtrace = [g \in Regs |-> <<>>]
    /\ rresp = [g \in Regs |-> <<>>]

\* no run of bytesToCar has started
EncIdle ==
    /\ cpc = [r \in Runs |-> "idle"]
    /\ file = [r \in Runs |-> <<>>]
    /\ pending = [r \in Runs |-> <<>>]
    /\ blocks = [r \in Runs |-> <<>>]
    /\ emitted = [r \in Runs |-> <<>>]
    /\ rootCID = [r \in Runs |-> Undefined]
    /\ carChunks = [r \in Runs |-> <<>>]
    /\ out = [r \in Runs |-> [rootCid |-> Undefined, carBytes |-> Undefined,
                               shardCid |-> Undefined]]

Init ==
    /\ env \in [STORACHA_X_AUTH_SECRET : Secrets, STORACHA_AUTH : Auths,
                SPACE_DID : SpaceDids, GATEWAY_BASE : GatewayBases]
    /\ pc = [c \in Calls |-> "idle"]
    /\ req = [c \in Calls |-> Undefined]
    /\ local = [c \in Calls |-> NoLocals]
    /\ trace = [c \in Calls |-> <<>>]
    /\ responses = [c \in Calls |-> <<>>]
    /\ EncIdle
    /\ NftDeployed
    /\ RegIdle

\* ------------------------------------------------------------- operations
\* mutant: the space identifier is not checked
bridgeHeadersThrows_NoSpace(e) == e.STORACHA_X_AUTH_SECRET = "" \/ e.STORACHA_AUTH = ""
\* bridgeHeaders() throws when a credential or the space is unset ...
bridgeHeadersThrows(e) ==
    e.STORACHA_X_AUTH_SECRET = "" \/ e.STORACHA_AUTH = "" \/ e.SPACE_DID = ""
MissingEnvError ==
    Obj([message |-> Str("Missing STORACHA_X_AUTH_SECRET, STORACHA_AUTH, or SPACE_DID in .env")])
\* ... and returns the bridge request headers otherwise
bridgeHeaders(e) ==
    Obj([contentType |-> Str("application/json"),
         xAuthSecret |-> Str(e.STORACHA_X_AUTH_SECRET),
         authorization |-> Str(e.STORACHA_AUTH)])

\* res.status(status).json(body): fields whose value is undefined are not
\* serialized
Json(r) == Obj([f \in {g \in DOMAIN r : r[g] # Undefined} |-> r[f]])
Respond(c, status, body) ==
    responses' = [responses EXCEPT ![c] = Append(@, [status |-> status, body |-> Json(body)])]

\* a network request leaving the process; an outcome coming back
Request(method, url, data, headers) ==
    [ev |-> "request", method |-> method, url |-> url, data |-> data, headers |-> headers]
Resolved(data) == [ev |-> "resolved", data |-> data]
Rejected(e) == [ev |-> "rejected", error |-> e]

\* [[task, SPACE_DID, args]]
Tasks(task, e, args) == Obj([tasks |-> Arr(<<Arr(<<Str(task), Str(e.SPACE_DID), args>>)>>)])
\* { '/': cid }
Link(cid) == Obj("/" :> cid)

\* mutant: the catch block reports the error message only
UploadCatch_MessageOnly(c, e) ==
    Respond(c, 500, [ok |-> Bool(FALSE), error |-> OrElse(Get(e, "message"), e)])
\* the catch block of the upload handler
UploadCatch(c, e) ==
    LET err == OrElse(OrElse(Get(Get(e, "response"), "data"), Get(e, "message")), e)
    IN Respond(c, 500, [ok |-> Bool(FALSE), error |-> err])

\* mutant: size is the length of the payload, not of the CAR
UploadLocals_PayloadSize(contentBase64) ==
    LET bytes == Base64Decode(contentBase64.v)
        car == bytesToCar(bytes)
    IN [bytes |-> Buf(Lit(bytes)), rootCid |-> car.rootCid, carBytes |-> Buf(car.carBytes),
        size |-> Num(Len(bytes)), shardCid |-> carCid(car.carBytes),
        putUrl |-> Undefined, putHeaders |-> Undefined]
\* the locals the upload handler computes from contentBase64 before its
\* first network call: bytes, { rootCid, carBytes }, size, shardCid
UploadLocals(contentBase64) ==
    LET bytes == Base64Decode(contentBase64.v)
        car == bytesToCar(bytes)
    IN [bytes |-> Buf(Lit(bytes)), rootCid |-> car.rootCid, carBytes |-> Buf(car.carBytes),
        size |-> Num(ByteLength(car.carBytes)), shardCid |-> carCid(car.carBytes),
        putUrl |-> Undefined, putHeaders |-> Undefined]

\* tasksStore: store/add with the CAR link and size
tasksStore(e, l) == Tasks("store/add", e, Obj([link |-> Link(l.shardCid), size |-> l.size]))

\* mutant: the root is registered as its own shard
tasksUpload_RootAsShard(e, l) ==
    Tasks("upload/add", e, Obj([root |-> Link(l.rootCid), shards |-> Arr(<<Link(l.rootCid)>>)]))
\* tasksUpload: upload/add with the root and its shards
tasksUpload(e, l) ==
    Tasks("upload/add", e, Obj([root |-> Link(l.rootCid), shards |-> Arr(<<Link(l.shardCid)>>)]))

\* the outcome of the network call the handler of c awaits is logged, and
\* the request it goes on to issue, if any
Outcome(c, o) == trace' = [trace EXCEPT ![c] = Append(@, o)]
Issue(c, o, r) == trace' = [trace EXCEPT ![c] = Append(Append(@, o), r)]

\* mutant: only contentBase64 is required
MissingFields_ContentOnly(fileName, contentBase64) == ~Truthy(contentBase64)
\* if (!fileName || !contentBase64)
MissingFields(fileName, contentBase64) == ~Truthy(fileName) \/ ~Truthy(contentBase64)

\* POST /storacha/upload, from the start of the handler to its first await
\* of the network (the store/add request)
UploadBegin(c) ==
    /\ pc[c] = "idle"
    /\ \E fileName \in FileNames, contentBase64 \in Contents :
        /\ req' = [req EXCEPT ![c] = [route |-> "POST /storacha/upload",
                                      body |-> [fileName |-> fileName,
                                                contentBase64 |-> contentBase64]]]
        /\ IF MissingFields(fileName, contentBase64)
           THEN /\ Respond(c, 400, [ok |-> Bool(FALSE),
                                    error |-> Str("fileName and contentBase64 are required")])
                /\ pc' = [pc EXCEPT ![c] = "done"]
                /\ UNCHANGED <<local, trace>>
           ELSE LET l == UploadLocals(contentBase64)
                IN /\ local' = [local EXCEPT ![c] = l]
                   /\ IF bridgeHeadersThrows(env)
                      THEN /\ UploadCatch(c, MissingEnvError)
                           /\ pc' = [pc EXCEPT ![c] = "done"]
                           /\ UNCHANGED trace
                      ELSE /\ trace' = [trace EXCEPT ![c] = Append(@,
                                          Request("POST", Str(STORACHA_BRIDGE_URL),
                                                  tasksStore(env, l), bridgeHeaders(env)))]
                           /\ pc' = [pc EXCEPT ![c] = "awaitStoreAdd"]
                           /\ UNCHANGED responses
    /\ UNCHANGED env
    /\ UNCHANGED encVars
    /\ UNCHANGED <<nftVars, regVars>>

\* mutant: the check compares with null, which undefined never equals
MissingPutUrl_NullOnly(putUrl) == putUrl = Null
\* if (!putUrl)
MissingPutUrl(putUrl) == ~Truthy(putUrl)

\* the 502 answer of the second check
RespondNoPutUrlNoBridge(c) ==
    Respond(c, 502, [ok |-> Bool(FALSE),
                     error |-> Str("Bridge did not return a PUT URL (check link/size/caps/tokens)")])

\* mutant: the first check answers as the second does, without the bridge body
RespondNoPutUrl_NoBridge(c, data) == RespondNoPutUrlNoBridge(c)
\* the 502 answer of the first check, with the raw bridge response
RespondNoPutUrl(c, data) ==
    Respond(c, 502, [ok |-> Bool(FALSE), error |-> Str("Bridge did not return a PUT URL"),
                     bridge |-> data])

\* mutant: the PUT sends the payload bytes instead of the CAR
PutRequest_SendsPayload(l, putUrl, putHeaders) == Request("PUT", putUrl, l.bytes, putHeaders)
\* mutant: the PUT is sent with the headers of the bridge requests
PutRequest_BridgeHeaders(l, putUrl, putHeaders) ==
    Request("PUT", putUrl, l.carBytes, bridgeHeaders(env))
\* axios.put(putUrl, carBytes, { headers: putHeaders, maxBodyLength: Infinity })
PutRequest(l, putUrl, putHeaders) == Request("PUT", putUrl, l.carBytes, putHeaders)

\* store/add resolved with storeResp: the handler runs on to the 502
\* response or to the PUT of the CAR bytes
StoreAddResolved(c) ==
    /\ pc[c] = "awaitStoreAdd"
    /\ \E data \in StoreAddDatas :
        LET storeTask == At0(OrElse(Get(data, "results"), Arr(<<>>)))
            putUrl == Get(Get(Get(storeTask, "out"), "ok"), "url")
            putHeaders == OrElse(Get(Get(Get(storeTask, "out"), "ok"), "headers"), EmptyObj)
        IN /\ local' = [local EXCEPT ![c] = [@ EXCEPT !.putUrl = putUrl,
                                                      !.putHeaders = putHeaders]]
           /\ IF MissingPutUrl(putUrl)
              THEN /\ RespondNoPutUrl(c, data)
                   /\ Outcome(c, Resolved(data))
                   /\ pc' = [pc EXCEPT ![c] = "done"]
              ELSE IF MissingPutUrl(putUrl)
              THEN /\ RespondNoPutUrlNoBridge(c)
                   /\ Outcome(c, Resolved(data))
                   /\ pc' = [pc EXCEPT ![c] = "done"]
              ELSE /\ Issue(c, Resolved(data), PutRequest(local[c], putUrl, putHeaders))
                   /\ pc' = [pc EXCEPT ![c] = "awaitPut"]
                   /\ UNCHANGED responses
    /\ UNCHANGED <<env, req>>
    /\ UNCHANGED encVars
    /\ UNCHANGED <<nftVars, regVars>>

\* store/add rejected (HTTP error status or transport error): catch block
StoreAddRejected(c) ==
    /\ pc[c] = "awaitStoreAdd"
    /\ \E e \in BridgeErrors :
        /\ Outcome(c, Rejected(e))
        /\ UploadCatch(c, e)
    /\ pc' = [pc EXCEPT ![c] = "done"]
    /\ UNCHANGED <<env, req, local>>
    /\ UNCHANGED encVars
    /\ UNCHANGED <<nftVars, regVars>>

\* mutant: the locals are module-level, so a call reads those written last
\* by the other call
PutResolved_SharedLocals(c) ==
    /\ pc[c] = "awaitPut"
    /\ \E d \in Calls :
        /\ local[d].shardCid # Undefined
        /\ Issue(c, Resolved(Str("")),
                 Request("POST", Str(STORACHA_BRIDGE_URL), tasksUpload(env, local[d]),
                         bridgeHeaders(env)))
    /\ pc' = [pc EXCEPT ![c] = "awaitUploadAdd"]
    /\ UNCHANGED <<env, req, local, responses>>
    /\ UNCHANGED encVars
    /\ UNCHANGED <<nftVars, regVars>>
\* the PUT resolved: the handler builds and issues upload/add
PutResolved(c) ==
    /\ pc[c] = "awaitPut"
    /\ IF bridgeHeadersThrows(env)
       THEN /\ Outcome(c, Resolved(Str("")))
            /\ UploadCatch(c, MissingEnvError)
            /\ pc' = [pc EXCEPT ![c] = "done"]
       ELSE /\ Issue(c, Resolved(Str("")),
                     Request("POST", Str(STORACHA_BRIDGE_URL), tasksUpload(env, local[c]),
                             bridgeHeaders(env)))
            /\ pc' = [pc EXCEPT ![c] = "awaitUploadAdd"]
            /\ UNCHANGED responses
    /\ UNCHANGED <<env, req, local>>
    /\ UNCHANGED encVars
    /\ UNCHANGED <<nftVars, regVars>>

\* mutant: the rejection of the PUT is not caught, the call never answers
PutRejected_Unhandled(c) ==
    /\ pc[c] = "awaitPut"
    /\ \E e \in PutErrors : Outcome(c, Rejected(e))
    /\ pc' = [pc EXCEPT ![c] = "unhandledRejection"]
    /\ UNCHANGED <<env, req, local, responses>>
    /\ UNCHANGED encVars
    /\ UNCHANGED <<nftVars, regVars>>
\* the PUT rejected: catch block
PutRejected(c) ==
    /\ pc[c] = "awaitPut"
    /\ \E e \in PutErrors :
        /\ Outcome(c, Rejected(e))
        /\ UploadCatch(c, e)
    /\ pc' = [pc EXCEPT ![c] = "done"]
    /\ UNCHANGED <<env, req, local>>
    /\ UNCHANGED encVars
    /\ UNCHANGED <<nftVars, regVars>>

\* `${GATEWAY_BASE}${rootCid}`
GatewayUrl(e, rootCid) == [t |-> "text", v |-> e.GATEWAY_BASE \o <<rootCid>>]

\* the success answer { ok: true, rootCid, gatewayUrl }
RespondSuccess(c) ==
    Respond(c, 200, [ok |-> Bool(TRUE), rootCid |-> local[c].rootCid,
                     gatewayUrl |-> GatewayUrl(env, local[c].rootCid)])

\* upload/add resolved: the success response
UploadAddResolved(c) ==
    /\ pc[c] = "awaitUploadAdd"
    /\ \E data \in UploadAddDatas : Outcome(c, Resolved(data))
    /\ RespondSuccess(c)
    /\ pc' = [pc EXCEPT ![c] = "done"]
    /\ UNCHANGED <<env, req, local>>
    /\ UNCHANGED encVars
    /\ UNCHANGED <<nftVars, regVars>>

\* mutant: a rejected upload/add is swallowed and the call answers success
UploadAddRejected_Swallow(c) ==
    /\ pc[c] = "awaitUploadAdd"
    /\ \E e \in BridgeErrors : Outcome(c, Rejected(e))
    /\ RespondSuccess(c)
    /\ pc' = [pc EXCEPT ![c] = "done"]
    /\ UNCHANGED <<env, req, local>>
    /\ UNCHANGED encVars
    /\ UNCHANGED <<nftVars, regVars>>
\* mutant: a rejected upload/add is issued again
UploadAddRejected_Retry(c) ==
    /\ pc[c] = "awaitUploadAdd"
    /\ \E e \in BridgeErrors :
        Issue(c, Rejected(e),
              Request("POST", Str(STORACHA_BRIDGE_URL), tasksUpload(env, local[c]),
                      bridgeHeaders(env)))
    /\ UNCHANGED <<env, pc, req, local, responses>>
    /\ UNCHANGED encVars
    /\ UNCHANGED <<nftVars, regVars>>
\* upload/add rejected: catch block
UploadAddRejected(c) ==
    /\ pc[c] = "awaitUploadAdd"
    /\ \E e \in BridgeErrors :
        /\ Outcome(c, Rejected(e))
        /\ UploadCatch(c, e)
    /\ pc' = [pc EXCEPT ![c] = "done"]
    /\ UNCHANGED <<env, req, local>>
    /\ UNCHANGED encVars
    /\ UNCHANGED <<nftVars, regVars>>

\* the catch block of the debug list handler
DebugListCatch(c, e) ==
    Respond(c, 500, [ok |-> Bool(FALSE),
                     error |-> OrElse(Get(Get(e, "response"), "data"), Get(e, "message"))])

\* GET /storacha/debug/list up to its await of upload/list
DebugListBegin(c) ==
    /\ pc[c] = "idle"
    /\ req' = [req EXCEPT ![c] = [route |-> "GET /storacha/debug/list"]]
    /\ IF bridgeHeadersThrows(env)
       THEN /\ DebugListCatch(c, MissingEnvError)
            /\ pc' = [pc EXCEPT ![c] = "done"]
            /\ UNCHANGED trace
       ELSE /\ trace' = [trace EXCEPT ![c] = Append(@,
                            Request("POST", Str(STORACHA_BRIDGE_URL),
                                    Tasks("upload/list", env, EmptyObj), bridgeHeaders(env)))]
            /\ pc' = [pc EXCEPT ![c] = "awaitList"]
            /\ UNCHANGED responses
    /\ UNCHANGED <<env, local>>
    /\ UNCHANGED encVars
    /\ UNCHANGED <<nftVars, regVars>>

\* upload/list resolved: { ok: true, bridge: r.data }
DebugListResolved(c) ==
    /\ pc[c] = "awaitList"
    /\ \E data \in UploadListDatas :
        /\ Outcome(c, Resolved(data))
        /\ Respond(c, 200, [ok |-> Bool(TRUE), bridge |-> data])
    /\ pc' = [pc EXCEPT ![c] = "done"]
    /\ UNCHANGED <<env, req, local>>
    /\ UNCHANGED encVars
    /\ UNCHANGED <<nftVars, regVars>>

\* upload/list rejected: catch block
DebugListRejected(c) ==
    /\ pc[c] = "awaitList"
    /\ \E e \in BridgeErrors :
        /\ Outcome(c, Rejected(e))
        /\ DebugListCatch(c, e)
    /\ pc' = [pc EXCEPT ![c] = "done"]
    /\ UNCHANGED <<env, req, local>>
    /\ UNCHANGED encVars
    /\ UNCHANGED <<nftVars, regVars>>

Next ==
    \E c \in Calls :
        \/ UploadBegin(c)
        \/ StoreAddResolved(c)
        \/ StoreAddRejected(c)
        \/ PutResolved(c)
        \/ PutRejected(c)
        \/ UploadAddResolved(c)
        \/ UploadAddRejected(c)
        \/ DebugListBegin(c)
        \/ DebugListResolved(c)
        \/ DebugListRejected(c)

Spec == Init /\ [][Next]_vars

\* the network call a handler awaits settles: its promise resolves or rejects
Settle(c) ==
    \/ StoreAddResolved(c) \/ StoreAddRejected(c)
    \/ PutResolved(c) \/ PutRejected(c)
    \/ UploadAddResolved(c) \/ UploadAddRejected(c)
    \/ DebugListResolved(c) \/ DebugListRejected(c)

\* Every network call eventually returns or throws, and the event loop then
\* runs the continuation of the handler that awaits it.
FairSpec == Spec /\ \A c \in Calls : WF_vars(Settle(c))

\* ------------------------------------- bytesToCar and carCid, step by step
\* bytesToCar awaits its two stream pipelines and carCid awaits the digest,
\* so runs that belong to different calls interleave at every block.
Payloads == UNION {[1..n -> PayloadBytes] : n \in 0..MaxPayloadLen}

\* bytesToCar(bytes) up to the first pipeTo: file, blocks = []
StartRun(r) ==
    /\ cpc[r] = "idle"
    /\ \E bytes \in Payloads :
        /\ file' = [file EXCEPT ![r] = bytes]
        /\ pending' = [pending EXCEPT ![r] = createFileEncoderStream(bytes)]
    /\ blocks' = [blocks EXCEPT ![r] = <<>>]
    /\ cpc' = [cpc EXCEPT ![r] = "chunking"]
    /\ UNCHANGED <<emitted, rootCID, carChunks, out>>
    /\ UNCHANGED srvVars
    /\ UNCHANGED <<nftVars, regVars>>

\* mutant: blocks is one array shared by the runs in progress
ChunkWrite_Shared(r) ==
    /\ cpc[r] = "chunking" /\ pending[r] # <<>>
    /\ blocks' = [q \in Runs |-> IF cpc[q] = "chunking"
                                 THEN Append(blocks[q], Head(pending[r])) ELSE blocks[q]]
    /\ emitted' = [emitted EXCEPT ![r] = Append(@, Head(pending[r]))]
    /\ pending' = [pending EXCEPT ![r] = Tail(@)]
    /\ UNCHANGED <<cpc, file, rootCID, carChunks, out>>
    /\ UNCHANGED srvVars
    /\ UNCHANGED <<nftVars, regVars>>
\* write: (b) => blocks.push(b), once per block of the chunker
ChunkWrite(r) ==
    /\ cpc[r] = "chunking" /\ pending[r] # <<>>
    /\ blocks' = [blocks EXCEPT ![r] = Append(@, Head(pending[r]))]
    /\ emitted' = [emitted EXCEPT ![r] = Append(@, Head(pending[r]))]
    /\ pending' = [pending EXCEPT ![r] = Tail(@)]
    /\ UNCHANGED <<cpc, file, rootCID, carChunks, out>>
    /\ UNCHANGED srvVars
    /\ UNCHANGED <<nftVars, regVars>>

\* mutant: the root is taken from the first block
ChunkClose_FirstRoot(r) ==
    /\ cpc[r] = "chunking" /\ pending[r] = <<>>
    /\ rootCID' = [rootCID EXCEPT ![r] = blocks[r][1].cid]
    /\ cpc' = [cpc EXCEPT ![r] = "piping"]
    /\ UNCHANGED <<file, pending, blocks, emitted, carChunks, out>>
    /\ UNCHANGED srvVars
    /\ UNCHANGED <<nftVars, regVars>>
\* the chunker's stream closed: rootCID = blocks.at(-1).cid
ChunkClose(r) ==
    /\ cpc[r] = "chunking" /\ pending[r] = <<>>
    /\ rootCID' = [rootCID EXCEPT ![r] = blocks[r][Len(blocks[r])].cid]
    /\ cpc' = [cpc EXCEPT ![r] = "piping"]
    /\ UNCHANGED <<file, pending, blocks, emitted, carChunks, out>>
    /\ UNCHANGED srvVars
    /\ UNCHANGED <<nftVars, regVars>>

\* new CAREncoderStream([rootCID]) writes the header chunk when it starts
EncodeStart(r) ==
    /\ cpc[r] = "piping"
    /\ carChunks' = [carChunks EXCEPT ![r] = <<CAREncoderStream(<<rootCID[r]>>, <<>>)[1]>>]
    /\ cpc' = [cpc EXCEPT ![r] = "encoding"]
    /\ UNCHANGED <<file, pending, blocks, emitted, rootCID, out>>
    /\ UNCHANGED srvVars
    /\ UNCHANGED <<nftVars, regVars>>

\* mutant: the block is taken from the end of the array
EncodePull_Pop(r) ==
    /\ cpc[r] = "encoding" /\ blocks[r] # <<>>
    /\ carChunks' = [carChunks EXCEPT ![r] =
                        Append(@, CarBlockFrame(blocks[r][Len(blocks[r])]))]
    /\ blocks' = [blocks EXCEPT ![r] = SubSeq(@, 1, Len(@) - 1)]
    /\ UNCHANGED <<cpc, file, pending, emitted, rootCID, out>>
    /\ UNCHANGED srvVars
    /\ UNCHANGED <<nftVars, regVars>>
\* pull: controller.enqueue(blocks.shift()); the encoder frames the block
\* and the sink pushes the chunk onto carChunks
EncodePull(r) ==
    /\ cpc[r] = "encoding" /\ blocks[r] # <<>>
    /\ carChunks' = [carChunks EXCEPT ![r] = Append(@, CarBlockFrame(Head(blocks[r])))]
    /\ blocks' = [blocks EXCEPT ![r] = Tail(@)]
    /\ UNCHANGED <<cpc, file, pending, emitted, rootCID, out>>
    /\ UNCHANGED srvVars
    /\ UNCHANGED <<nftVars, regVars>>

\* pull with blocks empty: controller.close(); carBytes is the
\* concatenation of carChunks and bytesToCar returns
EncodeClose(r) ==
    /\ cpc[r] = "encoding" /\ blocks[r] = <<>>
    /\ out' = [out EXCEPT ![r] = [rootCid |-> CidToString(rootCID[r]),
                                  carBytes |-> Concat(carChunks[r]),
                                  shardCid |-> Undefined]]
    /\ cpc' = [cpc EXCEPT ![r] = "hashing"]
    /\ UNCHANGED <<file, pending, blocks, emitted, rootCID, carChunks>>
    /\ UNCHANGED srvVars
    /\ UNCHANGED <<nftVars, regVars>>

\* carCid(carBytes), once the digest is there
CarCidDone(r) ==
    /\ cpc[r] = "hashing"
    /\ out' = [out EXCEPT ![r] = [@ EXCEPT !.shardCid = carCid(out[r].carBytes)]]
    /\ cpc' = [cpc EXCEPT ![r] = "done"]
    /\ UNCHANGED <<file, pending, blocks, emitted, rootCID, carChunks>>
    /\ UNCHANGED srvVars
    /\ UNCHANGED <<nftVars, regVars>>

\* the server started with the default gateway and a complete configuration
InitCar ==
    /\ env = [STORACHA_X_AUTH_SECRET |-> "secret", STORACHA_AUTH |-> "ucan",
              SPACE_DID |-> "did:key:space",
              GATEWAY_BASE |-> <<Str("https://w3s.link/ipfs"), Str("/")>>]
    /\ pc = [c \in Calls |-> "idle"]
    /\ req = [c \in Calls |-> Undefined]
    /\ local = [c \in Calls |-> NoLocals]
    /\ trace = [c \in Calls |-> <<>>]
    /\ responses = [c \in Calls |-> <<>>]
    /\ EncIdle
    /\ NftDeployed
    /\ RegIdle

NextCar ==
    \E r \in Runs :
        \/ StartRun(r)
        \/ ChunkWrite(r)
        \/ ChunkClose(r)
        \/ EncodeStart(r)
        \/ EncodePull(r)
        \/ EncodeClose(r)
        \/ CarCidDone(r)

SpecCar == InitCar /\ [][NextCar]_vars

\* ============================================================== properties
\* reading the trace of a call
Kind(e) == IF e.method = "PUT" THEN "PUT" ELSE e.data.v.tasks.v[1].v[1].v
TaskArgs(e) == e.data.v.tasks.v[1].v[3]
ReqIdx(c, k) == {i \in 1..Len(trace[c]) : trace[c][i].ev = "request" /\ Kind(trace[c][i]) = k}
RequestKinds(c) ==
    LET rs == SelectSeq(trace[c], LAMBDA e : e.ev = "request")
    IN [i \in 1..Len(rs) |-> Kind(rs[i])]
\* a bridge answer that carries a signed URL
HasUrl(data) ==
    Truthy(Get(Get(Get(At0(OrElse(Get(data, "results"), Arr(<<>>))), "out"), "ok"), "url"))
\* the outcome at position i of c's trace is a failed phase
Failed(c, i) ==
    \/ trace[c][i].ev = "rejected"
    \/ /\ trace[c][i].ev = "resolved"
       /\ (i - 1) \in ReqIdx(c, "store/add")
       /\ ~HasUrl(trace[c][i].data)
IsUpload(c) == pc[c] # "idle" /\ req[c].route = "POST /storacha/upload"
IsDebugList(c) == pc[c] # "idle" /\ req[c].route = "GET /storacha/debug/list"
AnsweredOk(c) ==
    \E k \in 1..Len(responses[c]) : Get(responses[c][k].body, "ok") = Bool(TRUE)
UploadKinds == {"store/add", "PUT", "upload/add"}

\* C1: in every upload call the PUT is issued only after store/add resolved
\* with a response that contains a signed URL, and upload/add is issued only
\* after that PUT resolved.
C1_PhaseOrdering ==
    \A c \in Calls :
        /\ \A i \in ReqIdx(c, "PUT") :
              \E j \in ReqIdx(c, "store/add") :
                  /\ j + 1 < i
                  /\ trace[c][j + 1].ev = "resolved"
                  /\ HasUrl(trace[c][j + 1].data)
        /\ \A i \in ReqIdx(c, "upload/add") :
              \E j \in ReqIdx(c, "PUT") :
                  /\ j + 1 < i
                  /\ trace[c][j + 1].ev = "resolved"

C1_Witness == \E c \in Calls : ReqIdx(c, "upload/add") # {}

\* C2: each of store/add, PUT and upload/add is issued at most once per
\* upload call; a call answered ok:true issued each exactly once, in that
\* order; after a failed phase the call issues no further network request.
C2_NoSkipNoRetry ==
    \A c \in Calls :
        /\ \A k \in UploadKinds : Cardinality(ReqIdx(c, k)) <= 1
        /\ (IsUpload(c) /\ AnsweredOk(c)) =>
              RequestKinds(c) = <<"store/add", "PUT", "upload/add">>
        /\ \A i \in 1..Len(trace[c]) :
              Failed(c, i) => \A j \in (i + 1)..Len(trace[c]) : trace[c][j].ev # "request"

C2_Witness ==
    \E c, d \in Calls :
        /\ IsUpload(c) /\ AnsweredOk(c)
        /\ IsUpload(d) /\ pc[d] = "done" /\ ReqIdx(d, "PUT") # {}
        /\ trace[d][Len(trace[d])].ev = "rejected"

\* C3: when store/add resolves without a signed URL the call answers 502
\* with ok:false and the bridge response body unchanged in `bridge`, issues
\* neither PUT nor upload/add, and no 502 answer lacks the `bridge` field.
C3_NoUrlCarriesBridge ==
    \A c \in Calls :
        /\ \A i \in ReqIdx(c, "store/add") :
              (i < Len(trace[c]) /\ trace[c][i + 1].ev = "resolved"
                 /\ ~HasUrl(trace[c][i + 1].data)) =>
                  /\ pc[c] = "done"
                  /\ Len(responses[c]) = 1
                  /\ responses[c][1].status = 502
                  /\ Get(responses[c][1].body, "ok") = Bool(FALSE)
                  /\ "bridge" \in DOMAIN responses[c][1].body.v
                  /\ Get(responses[c][1].body, "bridge") = trace[c][i + 1].data
                  /\ ReqIdx(c, "PUT") = {}
                  /\ ReqIdx(c, "upload/add") = {}
        /\ \A k \in 1..Len(responses[c]) :
              responses[c][k].status = 502 => "bridge" \in DOMAIN responses[c][k].body.v

C3_Witness ==
    \E c \in Calls :
        /\ Len(trace[c]) = 2
        /\ trace[c][2].ev = "resolved"
        /\ ~HasUrl(trace[c][2].data)
        /\ Len(responses[c]) = 1

\* C4: when the secret, the authorization value or the space identifier is
\* absent, upload calls and debug list calls end with an error response and
\* no network request is ever issued.
C4_MissingConfigFailsFast ==
    (env.STORACHA_X_AUTH_SECRET = "" \/ env.STORACHA_AUTH = "" \/ env.SPACE_DID = "") =>
        \A c \in Calls :
            /\ trace[c] = <<>>
            /\ pc[c] \in {"idle", "done"}
            /\ pc[c] = "done" =>
                  /\ Len(responses[c]) = 1
                  /\ responses[c][1].status >= 400
                  /\ Get(responses[c][1].body, "ok") = Bool(FALSE)

C4_Witness ==
    /\ env.STORACHA_X_AUTH_SECRET # "" /\ env.STORACHA_AUTH # "" /\ env.SPACE_DID = ""
    /\ \E c, d \in Calls :
        /\ IsUpload(c) /\ pc[c] = "done" /\ local[c].carBytes # Undefined
        /\ responses[c][1].status = 500
        /\ IsDebugList(d) /\ pc[d] = "done"
        /\ responses[d][1].status = 500


\* C5: the size sent in store/add equals the byte length of the body sent
\* in the PUT of the same call.
C5_SizeIsBodyLength ==
    \A c \in Calls :
        \A i \in ReqIdx(c, "PUT") : \A j \in ReqIdx(c, "store/add") :
            Get(TaskArgs(trace[c][j]), "size") = Num(ByteLength(trace[c][i].data.v))

C5_Witness ==
    \E c \in Calls :
        /\ ReqIdx(c, "PUT") # {}
        /\ Len(local[c].bytes.v) = 1
        /\ local[c].size.v > 1

\* the PUT body of a call is its carBytes, and the CAR CID of that body is
\* the link its store/add sent
C6_BodyState ==
    \A c \in Calls :
        \A i \in ReqIdx(c, "PUT") : \A j \in ReqIdx(c, "store/add") :
            /\ Get(Get(TaskArgs(trace[c][j]), "link"), "/") = carCid(trace[c][i].data.v)
            /\ trace[c][i].data = local[c].carBytes
\* a step leaves the carBytes of a call as they are once they are set
C6_BodyStep ==
    \A c \in Calls :
        local[c].carBytes # Undefined => local'[c].carBytes = local[c].carBytes

\* C6: the body sent in the PUT is byte for byte the sequence whose CAR CID
\* was sent as the link of store/add, and no step of the call changes the
\* archive bytes after they were built.
C6_ArchiveUnchanged == [](C6_BodyState) /\ [][C6_BodyStep]_vars

C6_Witness ==
    \E c \in Calls :
        /\ ReqIdx(c, "PUT") # {}
        /\ pc[c] = "done"
        /\ local[c].carBytes # Undefined

\* C7: upload/add registers exactly one shard, the link sent in store/add,
\* and its root is the rootCid answered to the caller and the last piece of
\* gatewayUrl.
C7_IdentifiersConsistent ==
    \A c \in Calls :
        \A u \in ReqIdx(c, "upload/add") :
            LET args == TaskArgs(trace[c][u])
                shards == Get(args, "shards")
                root == Get(Get(args, "root"), "/")
            IN /\ shards.t = "array"
               /\ Len(shards.v) = 1
               /\ \A j \in ReqIdx(c, "store/add") :
                     shards.v[1] = Get(TaskArgs(trace[c][j]), "link")
               /\ \A k \in 1..Len(responses[c]) :
                     Get(responses[c][k].body, "ok") = Bool(TRUE) =>
                        /\ Get(responses[c][k].body, "rootCid") = root
                        /\ LET url == Get(responses[c][k].body, "gatewayUrl").v
                           IN url[Len(url)] = root

C7_Witness ==
    \E c \in Calls :
        /\ IsUpload(c)
        /\ AnsweredOk(c)
        /\ Len(local[c].bytes.v) = 0

\* the PUT of c resolved and its upload/add was rejected with an HTTP error
FinalizeHttpError(c) ==
    /\ \E i \in ReqIdx(c, "PUT") : i < Len(trace[c]) /\ trace[c][i + 1].ev = "resolved"
    /\ \E u \in ReqIdx(c, "upload/add") :
          /\ u < Len(trace[c])
          /\ trace[c][u + 1].ev = "rejected"
          /\ Get(trace[c][u + 1].error, "response") # Undefined

\* C8: when the PUT succeeded and upload/add fails with an HTTP error, the
\* call answers ok:false with an error status, never ok:true.
C8_FinalizeFailureSurfaced ==
    \A c \in Calls :
        FinalizeHttpError(c) =>
            /\ Len(responses[c]) = 1
            /\ responses[c][1].status >= 400
            /\ Get(responses[c][1].body, "ok") = Bool(FALSE)
            /\ ~AnsweredOk(c)

C8_Witness == \E c \in Calls : FinalizeHttpError(c) /\ pc[c] = "done"

\* the bridge payloads of c's failure: the store/add answer without a URL,
\* or the body of the HTTP error store/add or upload/add was rejected with
NoUrlPayloads(c) ==
    {trace[c][i + 1].data : i \in {j \in ReqIdx(c, "store/add") :
        j < Len(trace[c]) /\ trace[c][j + 1].ev = "resolved" /\ ~HasUrl(trace[c][j + 1].data)}}
HttpErrorPayloads(c) ==
    {Get(Get(trace[c][i + 1].error, "response"), "data") :
        i \in {j \in ReqIdx(c, "store/add") \cup ReqIdx(c, "upload/add") :
                 /\ j < Len(trace[c])
                 /\ trace[c][j + 1].ev = "rejected"
                 /\ Truthy(Get(Get(trace[c][j + 1].error, "response"), "data"))}}

\* C9 as stated: every upload that fails because of the bridge answers with
\* the bridge's payload in the `bridge` field.
C9_PayloadInBridgeField ==
    \A c \in Calls :
        \A p \in NoUrlPayloads(c) \cup HttpErrorPayloads(c) :
            /\ Len(responses[c]) = 1
            /\ "bridge" \in DOMAIN responses[c][1].body.v
            /\ Get(responses[c][1].body, "bridge") = p

\* C9 amended: the payload is answered untouched, in `bridge` when store/add
\* resolved without a URL, and in `error` (with no `bridge` field) when
\* store/add or upload/add was rejected with an HTTP error with a body.
C9_PayloadSurfaced ==
    \A c \in Calls :
        /\ \A p \in NoUrlPayloads(c) :
              /\ Len(responses[c]) = 1
              /\ Get(responses[c][1].body, "ok") = Bool(FALSE)
              /\ "bridge" \in DOMAIN responses[c][1].body.v
              /\ Get(responses[c][1].body, "bridge") = p
        /\ \A p \in HttpErrorPayloads(c) :
              /\ Len(responses[c]) = 1
              /\ Get(responses[c][1].body, "ok") = Bool(FALSE)
              /\ "bridge" \notin DOMAIN responses[c][1].body.v
              /\ Get(responses[c][1].body, "error") = p

C9_Witness ==
    \E c, d \in Calls :
        /\ HttpErrorPayloads(c) # {} /\ ReqIdx(c, "upload/add") # {}
        /\ HttpErrorPayloads(d) # {} /\ ReqIdx(d, "upload/add") = {}

\* the failure class of a finished upload call
FailureClass(c) ==
    IF ~(IsUpload(c) /\ pc[c] = "done") THEN "none"
    ELSE IF trace[c] = <<>>
         THEN IF local[c].carBytes # Undefined THEN "ConfigurationError" ELSE "none"
    ELSE IF NoUrlPayloads(c) # {} THEN "AuthorizationDenied"
    ELSE IF trace[c][Len(trace[c])].ev # "rejected" THEN "none"
    ELSE IF Kind(trace[c][Len(trace[c]) - 1]) = "PUT" THEN "TransferFailure"
    ELSE IF Kind(trace[c][Len(trace[c]) - 1]) = "upload/add" THEN "FinalizationFailure"
    ELSE "none"
\* two answers differ in HTTP status or in an explicit category
Distinguishable(r1, r2) ==
    r1.status # r2.status \/ Get(r1.body, "category") # Get(r2.body, "category")

\* C10: the answers of two upload calls that failed in different failure
\* classes are distinguishable by HTTP status or by an explicit category.
C10_FailureClassesDistinct ==
    \A c, d \in Calls :
        (FailureClass(c) # "none" /\ FailureClass(d) # "none"
            /\ FailureClass(c) # FailureClass(d)) =>
            Distinguishable(responses[c][1], responses[d][1])

\* ------------------------------------------------ C11 .. C20 (upload calls)
\* the request of c carries a fileName and a contentBase64 string
ValidBody(c) ==
    /\ IsUpload(c)
    /\ Truthy(req[c].body.fileName)
    /\ req[c].body.contentBase64.t = "base64string"
ConfigComplete ==
    env.STORACHA_X_AUTH_SECRET # "" /\ env.STORACHA_AUTH # "" /\ env.SPACE_DID # ""
NoPhaseFailed(c) == \A i \in 1..Len(trace[c]) : ~Failed(c, i)

\* C11: an upload call whose contentBase64 is a string that decodes to the
\* empty byte sequence, with a fileName, a complete configuration and no
\* failing network phase, ends with the answer ok:true.
C11_EmptyPayloadAccepted ==
    \A c \in Calls :
        (/\ IsUpload(c) /\ pc[c] = "done"
         /\ Truthy(req[c].body.fileName)
         /\ req[c].body.contentBase64.t = "base64string"
         /\ Base64Decode(req[c].body.contentBase64.v) = <<>>
         /\ ConfigComplete
         /\ NoPhaseFailed(c)) =>
            /\ Len(responses[c]) = 1
            /\ Get(responses[c][1].body, "ok") = Bool(TRUE)

RECURSIVE VarintAt(_, _)
\* the unsigned varint that starts at position i of a byte sequence
VarintAt(bs, i) ==
    IF bs[i].v < 128 THEN bs[i].v ELSE (bs[i].v - 128) + 128 * VarintAt(bs, i + 1)
\* the content-type code a CID text token carries (after the version byte)
TokenCode(tok) == VarintAt(tok.v, 2)

\* C13: in every upload call the root identifier and the archive identifier
\* differ as tokens; the archive identifier carries the CAR code 0x0202 and
\* the root identifier does not.
C13_IdentifiersDistinct ==
    \A c \in Calls :
        local[c].shardCid # Undefined =>
            /\ local[c].rootCid # local[c].shardCid
            /\ TokenCode(local[c].shardCid) = 514
            /\ TokenCode(local[c].rootCid) # 514
            /\ \A u \in ReqIdx(c, "upload/add") :
                  Get(Get(TaskArgs(trace[c][u]), "root"), "/")
                      # Get(Get(TaskArgs(trace[c][u]), "shards").v[1], "/")

C13_Witness ==
    \E c, d \in Calls :
        /\ ReqIdx(c, "upload/add") # {} /\ TokenCode(local[c].rootCid) = 112
        /\ local[d].shardCid # Undefined /\ TokenCode(local[d].rootCid) = 85

\* what a call computes from its own request when it runs alone
Own(c) == UploadLocals(req[c].body.contentBase64)
\* the signed URL and headers of the call's own store/add answer
OwnPutUrl(c, i) == Get(Get(Get(At0(Get(trace[c][i - 1].data, "results")), "out"), "ok"), "url")
OwnPutHeaders(c, i) ==
    OrElse(Get(Get(Get(At0(Get(trace[c][i - 1].data, "results")), "out"), "ok"), "headers"),
           EmptyObj)
\* the answer of a finished call as a function of its own request and of the
\* outcomes of its own network calls; own is Own(c)
OwnAnswer(c, own) ==
    LET last == trace[c][Len(trace[c])]
    IN IF ~ValidBody(c) \/ ~Truthy(req[c].body.contentBase64)
       THEN [status |-> 400,
             body |-> Obj([ok |-> Bool(FALSE),
                           error |-> Str("fileName and contentBase64 are required")])]
       ELSE IF trace[c] = <<>>
       THEN [status |-> 500, body |-> Obj([ok |-> Bool(FALSE),
                                           error |-> Get(MissingEnvError, "message")])]
       ELSE IF last.ev = "rejected"
       THEN [status |-> 500,
             body |-> Obj([ok |-> Bool(FALSE),
                           error |-> IF Truthy(Get(Get(last.error, "response"), "data"))
                                     THEN Get(Get(last.error, "response"), "data")
                                     ELSE Get(last.error, "message")])]
       ELSE IF Len(trace[c]) = 2
       THEN [status |-> 502,
             body |-> Obj([ok |-> Bool(FALSE), error |-> Str("Bridge did not return a PUT URL"),
                           bridge |-> last.data])]
       ELSE [status |-> 200,
             body |-> Obj([ok |-> Bool(TRUE), rootCid |-> own.rootCid,
                           gatewayUrl |-> [t |-> "text",
                                           v |-> env.GATEWAY_BASE \o <<own.rootCid>>]])]

\* C17: whatever the other call does, every request of an upload call is the
\* one its own input and its own earlier outcomes determine (identifiers,
\* size, body, URL and headers), and so is its answer.
C17_CallsIsolated ==
    \A c \in Calls :
        /\ (IsUpload(c) /\ trace[c] = <<>>) =>
               responses[c] = IF pc[c] = "done" THEN <<OwnAnswer(c, Undefined)>> ELSE <<>>
        /\ (IsUpload(c) /\ trace[c] # <<>>) =>
            LET own == Own(c)
                n == Len(trace[c])
            IN /\ Kind(trace[c][1]) = "store/add"
               /\ TaskArgs(trace[c][1]) = Obj([link |-> Link(own.shardCid), size |-> own.size])
               /\ n >= 3 =>
                     /\ Kind(trace[c][3]) = "PUT"
                     /\ trace[c][3].data = own.carBytes
                     /\ trace[c][3].url = OwnPutUrl(c, 3)
                     /\ trace[c][3].headers = OwnPutHeaders(c, 3)
               /\ n >= 5 =>
                     /\ Kind(trace[c][5]) = "upload/add"
                     /\ TaskArgs(trace[c][5]) =
                           Obj([root |-> Link(own.rootCid),
                                shards |-> Arr(<<Link(own.shardCid)>>)])
               /\ pc[c] = "done" => responses[c] = <<OwnAnswer(c, own)>>
               /\ pc[c] # "done" => responses[c] = <<>>

C17_Witness ==
    \E c, d \in Calls :
        /\ c # d
        /\ IsUpload(c) /\ IsUpload(d)
        /\ pc[c] = "done" /\ AnsweredOk(c)
        /\ ReqIdx(d, "upload/add") # {}
        /\ local[c].shardCid # local[d].shardCid

\* the text pieces of GATEWAY_BASE without a trailing '/'
BaseWithoutSlash(base) ==
    IF base # <<>> /\ base[Len(base)] = Str("/") THEN SubSeq(base, 1, Len(base) - 1) ELSE base

\* C18: the gatewayUrl of an ok:true answer is the gateway base, one '/'
\* and the root identifier, for the default and for any configured base.
C18_GatewayUrlSeparator ==
    \A c \in Calls :
        (IsUpload(c) /\ AnsweredOk(c)) =>
            Get(responses[c][1].body, "gatewayUrl").v =
                BaseWithoutSlash(env.GATEWAY_BASE)
                    \o <<Str("/"), Get(responses[c][1].body, "rootCid")>>

\* the bridge accepted the registration of c: its upload/add resolved with
\* an ok result
RegistrationAccepted(c) ==
    \E u \in ReqIdx(c, "upload/add") :
        /\ u < Len(trace[c])
        /\ trace[c][u + 1].ev = "resolved"
        /\ Get(Get(At0(OrElse(Get(trace[c][u + 1].data, "results"), Arr(<<>>))), "out"), "ok")
              # Undefined

\* C20: an upload call answers ok:true only if the bridge accepted the
\* registration (upload/add resolved with an ok result, not an error result).
C20_OkOnlyIfRegistered ==
    \A c \in Calls : (IsUpload(c) /\ AnsweredOk(c)) => RegistrationAccepted(c)

\* ------------------------------------------- C12, C14 .. C16 (the encoder)
\* Reading a CAR v1 archive back.  Positions index the segments of a byte
\* sequence; a digest segment stands for its 32 bytes.
RECURSIVE ReadVarint(_, _)
\* the varint at position i: its value and the position after it
ReadVarint(bs, i) ==
    IF bs[i].v < 128 THEN [val |-> bs[i].v, next |-> i + 1]
    ELSE LET rest == ReadVarint(bs, i + 1)
         IN [val |-> (bs[i].v - 128) + 128 * rest.val, next |-> rest.next]
RECURSIVE TakeBytes(_, _, _)
\* the n bytes from position i on
TakeBytes(bs, i, n) ==
    IF n <= 0 THEN [bytes |-> <<>>, next |-> i]
    ELSE LET rest == TakeBytes(bs, i + 1, n - Width(bs[i]))
         IN [bytes |-> <<bs[i]>> \o rest.bytes, next |-> rest.next]
\* the binary CID at position i: version, codec, hash code, hash size, digest
ReadCid(bs, i) ==
    LET codec == ReadVarint(bs, i + 1)
        hcode == ReadVarint(bs, codec.next)
        hsize == ReadVarint(bs, hcode.next)
        digest == TakeBytes(bs, hsize.next, hsize.val)
    IN [bytes |-> SubSeq(bs, i, digest.next - 1), next |-> digest.next]
RECURSIVE ReadBlocks(_, _)
\* the block frames from position i to the end: varint(length) cid bytes
ReadBlocks(bs, i) ==
    IF i > Len(bs) THEN <<>>
    ELSE LET len == ReadVarint(bs, i)
             cid == ReadCid(bs, len.next)
             data == TakeBytes(bs, cid.next, len.val - ByteLength(cid.bytes))
         IN <<[cid |-> cid.bytes, bytes |-> data.bytes]>> \o ReadBlocks(bs, data.next)
RECURSIVE ReadRoots(_, _, _)
\* n dag-cbor CID links from position i: d8 2a 58 <len> 00 <cid>
ReadRoots(hb, i, n) ==
    IF n = 0 THEN <<>>
    ELSE LET cid == ReadCid(hb, i + 5)
         IN <<cid.bytes>> \o ReadRoots(hb, cid.next, n - 1)
\* the roots the header declares and the blocks that follow it
DecodeCar(bs) ==
    LET hlen == ReadVarint(bs, 1)
        header == TakeBytes(bs, hlen.next, hlen.val)
    IN [roots |-> ReadRoots(header.bytes, 9, header.bytes[8].v - 128),
        blocks |-> ReadBlocks(bs, header.next)]
\* the blocks the chunker of run r wrote, as they appear in an archive
EmittedFrames(r) ==
    [i \in 1..Len(emitted[r]) |-> [cid |-> CidBytes(emitted[r][i].cid),
                                   bytes |-> emitted[r][i].bytes]]
RunReturned(r) == cpc[r] \in {"hashing", "done"}

\* C12: two finished runs of bytesToCar and carCid on the same payload, however
\* their steps interleave, return the same root identifier, the same archive
\* bytes and the same archive identifier: those of the payload alone.
C12_EncodingDeterministic ==
    /\ \A r1, r2 \in Runs :
          (cpc[r1] = "done" /\ cpc[r2] = "done" /\ file[r1] = file[r2]) => out[r1] = out[r2]
    /\ \A r \in Runs :
          cpc[r] = "done" =>
              /\ out[r].rootCid = bytesToCar(file[r]).rootCid
              /\ out[r].carBytes = bytesToCar(file[r]).carBytes
              /\ out[r].shardCid = carCid(bytesToCar(file[r]).carBytes)

C12_Witness ==
    /\ cpc["r1"] = "done" /\ cpc["r2"] = "done"
    /\ file["r1"] = file["r2"] /\ Len(emitted["r1"]) >= 3
    /\ out["r1"].shardCid # Undefined

\* C14: once bytesToCar has encoded the archive, the array of blocks the
\* chunker filled still holds the same blocks in the same order.
C14_BlocksUnchanged ==
    \A r \in Runs : RunReturned(r) => blocks[r] = emitted[r]

\* C15: the archive bytesToCar returns holds exactly the blocks the chunker
\* wrote, each once and in the order they were written.
C15_ArchiveHoldsEmittedBlocks ==
    \A r \in Runs :
        RunReturned(r) => DecodeCar(out[r].carBytes).blocks = EmittedFrames(r)

C15_Witness ==
    \E r1, r2 \in Runs :
        /\ RunReturned(r1) /\ Len(emitted[r1]) >= 3
        /\ RunReturned(r2) /\ Len(emitted[r2]) = 1

\* C16: the archive header declares one root, the identifier of the last
\* block the chunker wrote, and the rootCid returned is that identifier.
C16_RootIsLastBlock ==
    \A r \in Runs :
        RunReturned(r) =>
            /\ DecodeCar(out[r].carBytes).roots =
                  <<CidBytes(emitted[r][Len(emitted[r])].cid)>>
            /\ out[r].rootCid.v = CidBytes(emitted[r][Len(emitted[r])].cid)

C16_Witness ==
    \E r1, r2 \in Runs :
        /\ RunReturned(r1) /\ Len(emitted[r1]) = 4
        /\ RunReturned(r2) /\ Len(emitted[r2]) = 1 /\ file[r2] = <<>>

\* ------------------------------------------------------- C19 (lifecycle)
\* the call has sent its one response: ok:true (Finalized) or ok:false (Failed)
Finalized(c) ==
    pc[c] = "done" /\ Len(responses[c]) = 1 /\ Get(responses[c][1].body, "ok") = Bool(TRUE)
FailedState(c) ==
    pc[c] = "done" /\ Len(responses[c]) = 1 /\ Get(responses[c][1].body, "ok") = Bool(FALSE)
\* Built, Authorized, Transferred: the archive is built and store/add is
\* awaited, the PUT is awaited, upload/add is awaited
InProgress(c) == pc[c] \in {"awaitStoreAdd", "awaitPut", "awaitUploadAdd"}
C19_State ==
    \A c \in Calls :
        IsUpload(c) =>
            /\ pc[c] = "done" => (Finalized(c) \/ FailedState(c))
            /\ pc[c] # "done" => (InProgress(c) /\ responses[c] = <<>>)
            /\ pc[c] = "awaitStoreAdd" => ENABLED (StoreAddRejected(c) /\ FailedState(c)')
            /\ pc[c] = "awaitPut" => ENABLED (PutRejected(c) /\ FailedState(c)')
            /\ pc[c] = "awaitUploadAdd" => ENABLED (UploadAddRejected(c) /\ FailedState(c)')
C19_Step ==
    \A c \in Calls :
        pc[c] = "done" => (pc'[c] = "done" /\ responses'[c] = responses[c])

\* C19: provided every awaited network call settles, every upload call ends
\* Finalized or Failed with exactly one response; a step to Failed is possible
\* from Built, Authorized and Transferred; no step leaves a terminal state.
C19_UploadTerminates ==
    /\ [](C19_State)
    /\ [][C19_Step]_vars
    /\ \A c \in Calls : IsUpload(c) ~> (Finalized(c) \/ FailedState(c))

C19_Witness ==
    \E c, d \in Calls :
        /\ IsUpload(c) /\ Finalized(c)
        /\ IsUpload(d) /\ FailedState(d) /\ ReqIdx(d, "upload/add") # {}

\* ------------------------------------------------------------ C21, C22
\* the headers carry a bridge credential
HasCredentials(headers) ==
    Get(headers, "xAuthSecret") # Undefined \/ Get(headers, "authorization") # Undefined

\* C21: the PUT of a call goes to the URL and with the headers its own
\* store/add answer gave (no headers when it gave none), and a request that
\* carries X-Auth-Secret or Authorization goes to the bridge URL, never the PUT.
C21_PutUsesSignedUrlOnly ==
    \A c \in Calls :
        /\ \A i \in ReqIdx(c, "PUT") :
              /\ i > 2 /\ trace[c][i - 1].ev = "resolved" /\ (i - 2) \in ReqIdx(c, "store/add")
              /\ trace[c][i].url = OwnPutUrl(c, i)
              /\ trace[c][i].headers =
                    (IF Get(Get(Get(At0(Get(trace[c][i - 1].data, "results")), "out"), "ok"),
                            "headers") = Undefined
                     THEN EmptyObj
                     ELSE Get(Get(Get(At0(Get(trace[c][i - 1].data, "results")), "out"), "ok"),
                              "headers"))
              /\ ~HasCredentials(trace[c][i].headers)
        /\ \A i \in 1..Len(trace[c]) :
              (trace[c][i].ev = "request" /\ HasCredentials(trace[c][i].headers)) =>
                  /\ trace[c][i].method = "POST"
                  /\ trace[c][i].url = Str(STORACHA_BRIDGE_URL)

C21_Witness ==
    \E c, d \in Calls :
        /\ \E i \in ReqIdx(c, "PUT") : trace[c][i].headers = EmptyObj
        /\ \E i \in ReqIdx(d, "PUT") : trace[d][i].headers = SignedHeaders
        /\ ReqIdx(c, "upload/add") # {}

\* C22: an upload request without a fileName or without a contentBase64
\* (absent or empty) is answered 400 with ok:false, and neither an archive
\* is built nor a network request issued for it.
C22_MissingFieldsRejected ==
    \A c \in Calls :
        (/\ IsUpload(c)
         /\ \/ req[c].body.fileName \in {Undefined, Str("")}
            \/ req[c].body.contentBase64 \in {Undefined, B64Str(<<>>)}) =>
            /\ pc[c] = "done"
            /\ Len(responses[c]) = 1
            /\ responses[c][1].status = 400
            /\ Get(responses[c][1].body, "ok") = Bool(FALSE)
            /\ local[c] = NoLocals
            /\ trace[c] = <<>>

C22_Witness ==
    \E c, d \in Calls :
        /\ IsUpload(c) /\ req[c].body.fileName = Undefined
        /\ req[c].body.contentBase64.t = "base64string" /\ req[c].body.contentBase64.v # <<>>
        /\ IsUpload(d) /\ req[d].body.fileName = Str("cert.pdf")
        /\ req[d].body.contentBase64 = B64Str(<<>>)


\* ------------------------------------ BirthCertificateNFT, its functions
\* A call returns the storage it leaves, whether it reverted, and its
\* return value (the revert reason when it reverted).
Return(st, ret) == [st |-> st, reverted |-> FALSE, ret |-> ret]
Revert(st, reason) == [st |-> st, reverted |-> TRUE, ret |-> Str(reason)]

\* ERC721._ownerOf(tokenId)
OwnerOf(st, tokenId) == st._owners[tokenId]
\* ERC721.balanceOf(owner): reverts for address(0)
balanceOf(st, owner) ==
    IF owner = ZeroAddress THEN Revert(st, "ERC721InvalidOwner")
    ELSE Return(st, st._balances[owner])
\* ERC721._safeMint(to, tokenId): _mint, then the receiver check
SafeMint(st, to, tokenId) ==
    IF to = ZeroAddress THEN Revert(st, "ERC721InvalidReceiver")
    ELSE IF OwnerOf(st, tokenId) # ZeroAddress THEN Revert(st, "ERC721InvalidSender")
    ELSE IF to = NoReceiver THEN Revert(st, "ERC721InvalidReceiver")
    ELSE Return([st EXCEPT !._owners[tokenId] = to, !._balances[to] = @ + 1], Null)
\* ERC721.transferFrom(from, to, tokenId) called by sender
transferFrom(st, sender, from, to, tokenId) ==
    IF to = ZeroAddress THEN Revert(st, "ERC721InvalidReceiver")
    ELSE IF OwnerOf(st, tokenId) = ZeroAddress THEN Revert(st, "ERC721NonexistentToken")
    ELSE IF OwnerOf(st, tokenId) # sender THEN Revert(st, "ERC721InsufficientApproval")
    ELSE IF OwnerOf(st, tokenId) # from THEN Revert(st, "ERC721IncorrectOwner")
    ELSE Return([st EXCEPT !._balances[from] = @ - 1, !._owners[tokenId] = to,
                           !._balances[to] = IF to = from THEN st._balances[to]
                                            ELSE st._balances[to] + 1], Null)

\* mutant: a failed mint keeps the incremented counter
mint_NoRollback(st, sender, to, uri) ==
    IF sender # st._owner THEN Revert(st, "OwnableUnauthorizedAccount")
    ELSE LET tokenId == st._tokenIdCounter
             counted == [st EXCEPT !._tokenIdCounter = @ + 1]
             minted == SafeMint(counted, to, tokenId)
         IN IF minted.reverted THEN Revert(counted, minted.ret.v)
            ELSE Return([minted.st EXCEPT !._tokenURIs[tokenId] = uri], tokenId)
\* mint(to, uri) onlyOwner: a revert undoes every storage write of the call
mint(st, sender, to, uri) ==
    IF sender # st._owner THEN Revert(st, "OwnableUnauthorizedAccount")
    ELSE LET tokenId == st._tokenIdCounter
             counted == [st EXCEPT !._tokenIdCounter = @ + 1]
             minted == SafeMint(counted, to, tokenId)
         IN IF minted.reverted THEN Revert(st, minted.ret.v)
            ELSE Return([minted.st EXCEPT !._tokenURIs[tokenId] = uri], tokenId)

\* mintCertificate(to, uri, fullName, dateOfBirth, placeOfBirth, certificateCID)
mintCertificate(st, sender, to, uri, certificateCID) ==
    IF sender # st._owner THEN Revert(st, "OwnableUnauthorizedAccount")
    ELSE LET tokenId == st._tokenIdCounter
             counted == [st EXCEPT !._tokenIdCounter = @ + 1]
             minted == SafeMint(counted, to, tokenId)
         IN IF minted.reverted THEN Revert(st, minted.ret.v)
            ELSE Return([minted.st EXCEPT
                            !._tokenURIs[tokenId] = uri,
                            !.certificates[tokenId] = [certificateCID |-> certificateCID,
                                                       verified |-> TRUE]], tokenId)

\* verifyCertificate(tokenId)
verifyCertificate(st, tokenId) ==
    IF OwnerOf(st, tokenId) = ZeroAddress THEN Revert(st, "Certificate does not exist")
    ELSE Return(st, st.certificates[tokenId].verified)

RECURSIVE FillTokenIds(_, _, _, _, _)
\* the loop of getCertificatesByOwner from i on: tokenIds, or a panic when
\* the array is written beyond its length
FillTokenIds(st, owner, i, tokenIds, currentIndex) ==
    IF ~(i < st._tokenIdCounter) THEN Return(st, tokenIds)
    ELSE IF OwnerOf(st, i) = owner
    THEN IF currentIndex >= Len(tokenIds) THEN Revert(st, "Panic(0x32)")
         ELSE FillTokenIds(st, owner, i + 1, [tokenIds EXCEPT ![currentIndex + 1] = i],
                           currentIndex + 1)
    ELSE FillTokenIds(st, owner, i + 1, tokenIds, currentIndex)
\* mutant: the loop stops one token early
getCertificatesByOwner_SkipLast(st, owner) ==
    IF balanceOf(st, owner).reverted THEN balanceOf(st, owner)
    ELSE FillTokenIds([st EXCEPT !._tokenIdCounter = IF @ > 0 THEN @ - 1 ELSE 0], owner, 0,
                      [k \in 1..balanceOf(st, owner).ret |-> 0], 0)
\* getCertificatesByOwner(owner)
getCertificatesByOwner(st, owner) ==
    IF balanceOf(st, owner).reverted THEN balanceOf(st, owner)
    ELSE FillTokenIds(st, owner, 0, [k \in 1..balanceOf(st, owner).ret |-> 0], 0)

\* totalSupply() and getCurrentTokenId()
totalSupply(st) == st._tokenIdCounter
getCurrentTokenId(st) == st._tokenIdCounter

\* the token URIs and certificate CIDs callers pass
TokenUris == {Str("ipfs://metadata")}

\* a call of the contract is mined: its storage and the histories change
Mined(fn, r) ==
    /\ nft' = r.st
    /\ lastCall' = [fn |-> fn, reverted |-> r.reverted, ret |-> r.ret]
    /\ assigned' = IF fn \in {"mint", "mintCertificate"} /\ ~r.reverted
                   THEN Append(assigned, r.ret) ELSE assigned

\* some account calls mint
CallMint ==
    /\ nft._tokenIdCounter < MaxTokens
    /\ \E sender \in Addresses \ {ZeroAddress}, to \in Addresses, uri \in TokenUris :
        Mined("mint", mint(nft, sender, to, uri))
    /\ UNCHANGED <<srvVars, encVars, regVars>>

\* some account calls mintCertificate
CallMintCertificate ==
    /\ nft._tokenIdCounter < MaxTokens
    /\ \E sender \in Addresses \ {ZeroAddress}, to \in Addresses, uri \in TokenUris :
        Mined("mintCertificate", mintCertificate(nft, sender, to, uri, Str("bafy-certificate")))
    /\ UNCHANGED <<srvVars, encVars, regVars>>

\* some account calls transferFrom
CallTransferFrom ==
    /\ \E sender \in Addresses \ {ZeroAddress}, to \in Addresses, tokenId \in TokenIds :
      \E from \in {sender, Deployer} :
        Mined("transferFrom", transferFrom(nft, sender, from, to, tokenId))
    /\ UNCHANGED <<srvVars, encVars, regVars>>

\* the server is loaded with the default gateway and a complete configuration
InitNft ==
    /\ env = [STORACHA_X_AUTH_SECRET |-> "secret", STORACHA_AUTH |-> "ucan",
              SPACE_DID |-> "did:key:space",
              GATEWAY_BASE |-> <<Str("https://w3s.link/ipfs"), Str("/")>>]
    /\ pc = [c \in Calls |-> "idle"]
    /\ req = [c \in Calls |-> Undefined]
    /\ local = [c \in Calls |-> NoLocals]
    /\ trace = [c \in Calls |-> <<>>]
    /\ responses = [c \in Calls |-> <<>>]
    /\ EncIdle
    /\ NftDeployed
    /\ RegIdle

NextNft == CallMint \/ CallMintCertificate \/ CallTransferFrom

SpecNft == InitNft /\ [][NextNft]_vars

\* ---------------------------- birth-registration server, its operations
\* The two server files of the repository: the server with PDF certificates
\* (unnamed/part_000) and the one that adds the SVG image (index.js).
Builds == {"part_000", "index.js"}

\* startServer(): uploads/ is created and initializeStoracha awaits create()
StartServer ==
    /\ boot = "loaded"
    /\ \E build \in Builds : proc' = [proc EXCEPT !.build = build]
    /\ boot' = "create"
    /\ UNCHANGED <<rpc, rreq, rloc, rtrace, rresp>>
    /\ UNCHANGED <<srvVars, encVars, nftVars>>

\* storachaClient = await create()
CreateResolved ==
    /\ boot = "create"
    /\ proc' = [proc EXCEPT !.storachaClient = Str("client"), !.clientAssignments = @ + 1]
    /\ boot' = "login"
    /\ UNCHANGED <<rpc, rreq, rloc, rtrace, rresp>>
    /\ UNCHANGED <<srvVars, encVars, nftVars>>

\* await storachaClient.login(...)
LoginResolved ==
    /\ boot = "login"
    /\ boot' = "plan"
    /\ UNCHANGED <<proc, rpc, rreq, rloc, rtrace, rresp>>
    /\ UNCHANGED <<srvVars, encVars, nftVars>>

\* await account.plan.wait()
PlanResolved ==
    /\ boot = "plan"
    /\ boot' = "space"
    /\ UNCHANGED <<proc, rpc, rreq, rloc, rtrace, rresp>>
    /\ UNCHANGED <<srvVars, encVars, nftVars>>

\* create(), login() or plan.wait() rejected: the outer catch, process.exit(1)
InitRejected ==
    /\ boot \in {"create", "login", "plan"}
    /\ boot' = "exited"
    /\ UNCHANGED <<proc, rpc, rreq, rloc, rtrace, rresp>>
    /\ UNCHANGED <<srvVars, encVars, nftVars>>

\* currentSpace = await storachaClient.createSpace(...)
SpaceResolved ==
    /\ boot = "space"
    /\ proc' = [proc EXCEPT !.currentSpace = Str("did:key:space")]
    /\ boot' = "web3"
    /\ UNCHANGED <<rpc, rreq, rloc, rtrace, rresp>>
    /\ UNCHANGED <<srvVars, encVars, nftVars>>

\* createSpace rejected: 'space already exists' is tolerated, any other
\* error is thrown on to the outer catch
SpaceRejected ==
    /\ boot = "space"
    /\ \E alreadyExists \in BOOLEAN : boot' = IF alreadyExists THEN "web3" ELSE "exited"
    /\ UNCHANGED <<proc, rpc, rreq, rloc, rtrace, rresp>>
    /\ UNCHANGED <<srvVars, encVars, nftVars>>

\* initializeWeb3(): nftContract is set unless the wallet cannot be built
InitializeWeb3 ==
    /\ boot = "web3"
    /\ \E ok \in BOOLEAN :
        proc' = [proc EXCEPT !.nftContract = IF ok THEN Str("BirthCertificateNFT") ELSE Null]
    /\ boot' = "listen"
    /\ UNCHANGED <<rpc, rreq, rloc, rtrace, rresp>>
    /\ UNCHANGED <<srvVars, encVars, nftVars>>

\* mutant: startServer does not await the initialization before it listens
Listen_NoAwait ==
    /\ boot \in {"create", "login", "plan", "space", "web3", "listen"}
    /\ ~proc.listening
    /\ proc' = [proc EXCEPT !.listening = TRUE]
    /\ boot' = IF boot = "listen" THEN "running" ELSE boot
    /\ UNCHANGED <<rpc, rreq, rloc, rtrace, rresp>>
    /\ UNCHANGED <<srvVars, encVars, nftVars>>
\* app.listen(PORT), after both initializations were awaited
Listen ==
    /\ boot = "listen"
    /\ proc' = [proc EXCEPT !.listening = TRUE]
    /\ boot' = "running"
    /\ UNCHANGED <<rpc, rreq, rloc, rtrace, rresp>>
    /\ UNCHANGED <<srvVars, encVars, nftVars>>

\* the clock of the running server advances by a millisecond
Tick ==
    /\ proc.listening /\ boot # "exited"
    /\ proc.now < MaxClock
    /\ proc' = [proc EXCEPT !.now = @ + 1]
    /\ UNCHANGED <<boot, rpc, rreq, rloc, rtrace, rresp>>
    /\ UNCHANGED <<srvVars, encVars, nftVars>>

\* what a client sends as birthData: text that is not JSON, a registration
\* without wallet, with a wallet, with the address of a contract that cannot
\* receive tokens
BirthDatas ==
    { Str("{not json"),
      Obj([firstName |-> Str("Ada"), wallet |-> Undefined]),
      Obj([firstName |-> Str("Ada"), wallet |-> Str("alice")]),
      Obj([firstName |-> Str("Ada"), wallet |-> Str(NoReceiver)]) }
\* what multer leaves in req.file
ReqFiles == {Undefined, Obj([originalname |-> Str("clinic-note.pdf")])}

\* the CID uploadFile returns for the file of registration g
Cid(kind, g) == [t |-> "cid", v |-> <<kind, g>>]
\* `https://${cid}.ipfs.storacha.link`
StorachaLink(cid) == [t |-> "text", v |-> <<Str("https://"), cid, Str(".ipfs.storacha.link")>>]
\* `BC-${Date.now()}`
CertificateId(now) == [t |-> "text", v |-> <<Str("BC-"), Num(now)>>]
\* { cid, gatewayUrl, ipfsUrl }
CidInfo(cid) ==
    Obj([cid |-> cid, gatewayUrl |-> StorachaLink(cid),
         ipfsUrl |-> [t |-> "text", v |-> <<Str("ipfs://"), cid>>]])

RECURSIVE Hex(_)
\* the hexadecimal digits of n
Hex(n) == IF n < 16 THEN <<n>> ELSE Hex(n \div 16) \o <<n % 16>>
\* an event topic: a uint256 as 64 hexadecimal digits
Topic(n) == [t |-> "hex", v |-> [k \in 1..(64 - Len(Hex(n))) |-> 0] \o Hex(n)]
RECURSIVE ParseDigits(_)
ParseDigits(ds) ==
    IF ds = <<>> THEN 0 ELSE ParseDigits(SubSeq(ds, 1, Len(ds) - 1)) * 16 + ds[Len(ds)]
\* parseInt(topic, 16)
parseInt16(topic) == Num(ParseDigits(topic.v))
\* the logs of a mint: Transfer(address(0), to, tokenId), then the
\* MetadataUpdate(tokenId) of _setTokenURI
MintLogs(to, tokenId) ==
    <<[topics |-> <<Str("Transfer(address,address,uint256)"), Str(ZeroAddress), Str(to),
                    Topic(tokenId)>>],
      [topics |-> <<Str("MetadataUpdate(uint256)")>>]>>

RegCall(fn, args) == [ev |-> "call", fn |-> fn, args |-> args]
RegResolved(fn) == [ev |-> "resolved", fn |-> fn]
RegRejected(fn) == [ev |-> "rejected", fn |-> fn]
RegLog(g, events) == rtrace' = [rtrace EXCEPT ![g] = @ \o events]
RegRespond(g, status, body) ==
    rresp' = [rresp EXCEPT ![g] = Append(@, [status |-> status, body |-> Json(body)])]
RegDone(g) == rpc' = [rpc EXCEPT ![g] = "done"]
\* fs.unlinkSync(req.file.path)
Unlink(p, g) == [p EXCEPT !.uploads = @ \ {g}, !.unlinkCalls[g] = @ + 1]

\* mutant: the catch block does not remove the temporary file
RegCatch_NoCleanup(g, reqFile, p, message) ==
    /\ proc' = p
    /\ RegRespond(g, 500, [error |-> Str("Birth registration failed"), message |-> message])
    /\ RegDone(g)
\* the catch block of the handler: the temporary file is removed if it is
\* still there, then 500
RegCatch(g, reqFile, p, message) ==
    /\ proc' = IF Truthy(reqFile) /\ g \in p.uploads THEN Unlink(p, g) ELSE p
    /\ RegRespond(g, 500, [error |-> Str("Birth registration failed"), message |-> message])
    /\ RegDone(g)

\* the success response, built from the locals l
RegRespondSuccess(g, l) ==
    /\ RegRespond(g, 200,
          [success |-> Bool(TRUE),
           certificateId |-> IF proc.build = "index.js" THEN l.certificateId
                             ELSE CertificateId(proc.now),
           certificate |-> CidInfo(l.certificateCid),
           metadata |-> CidInfo(l.metadataCid),
           supportingDocument |-> IF Truthy(l.supportingDocumentCid)
                                  THEN CidInfo(l.supportingDocumentCid) ELSE Null,
           nft |-> IF Truthy(l.nftTokenId)
                   THEN Obj([tokenId |-> l.nftTokenId,
                             transactionHash |-> l.nftTransactionHash,
                             ownerAddress |-> Get(rreq[g].birthData, "wallet")])
                   ELSE Null])
    /\ RegDone(g)

\* ethers.isAddress(wallet)
isAddress(wallet) == wallet.t = "string" /\ wallet.v \in Addresses
\* the condition under which the handler mints
WillMint(g) ==
    /\ Truthy(proc.nftContract)
    /\ Truthy(Get(rreq[g].birthData, "wallet"))
    /\ isAddress(Get(rreq[g].birthData, "wallet"))
\* the tokenURI handed to mint
TokenURI(l) == StorachaLink(l.metadataCid)

\* POST /birth-registration up to its first await
RegBegin(g) ==
    /\ proc.listening /\ boot # "exited"
    /\ rpc[g] = "idle"
    /\ \E birthData \in BirthDatas, reqFile \in ReqFiles :
        LET stored == IF Truthy(reqFile) THEN [proc EXCEPT !.uploads = @ \cup {g}] ELSE proc
        IN  /\ rreq' = [rreq EXCEPT ![g] = [birthData |-> birthData, file |-> reqFile]]
            /\ IF birthData.t # "object"
               THEN \* JSON.parse throws
                    /\ RegCatch(g, reqFile, stored, Str("Unexpected token"))
                    /\ UNCHANGED <<rloc, rtrace>>
               ELSE IF ~Truthy(proc.storachaClient)
               THEN /\ RegRespond(g, 500, [error |-> Str("Storacha client not initialized")])
                    /\ RegDone(g)
                    /\ proc' = stored
                    /\ UNCHANGED <<rloc, rtrace>>
               ELSE /\ proc' = stored
                    /\ rloc' = [rloc EXCEPT ![g].certificateId =
                                   IF proc.build = "index.js" THEN CertificateId(proc.now) ELSE Null]
                    /\ rresp' = rresp
                    /\ IF Truthy(reqFile)
                       THEN /\ RegLog(g, <<RegCall("uploadFile", Str("document"))>>)
                            /\ rpc' = [rpc EXCEPT ![g] = "awaitDocUpload"]
                       ELSE /\ RegLog(g, <<RegCall("generateBirthCertificatePDF", Null)>>)
                            /\ rpc' = [rpc EXCEPT ![g] = "awaitPdf"]
    /\ UNCHANGED boot
    /\ UNCHANGED <<srvVars, encVars, nftVars>>

\* the supporting document is stored; its temporary file is removed
DocUploadResolved(g) ==
    /\ boot # "exited" /\ rpc[g] = "awaitDocUpload"
    /\ rloc' = [rloc EXCEPT ![g].supportingDocumentCid = Cid("document", g)]
    /\ proc' = Unlink(proc, g)
    /\ RegLog(g, <<RegResolved("uploadFile"), RegCall("generateBirthCertificatePDF", Null)>>)
    /\ rpc' = [rpc EXCEPT ![g] = "awaitPdf"]
    /\ UNCHANGED <<boot, rreq, rresp>>
    /\ UNCHANGED <<srvVars, encVars, nftVars>>

DocUploadRejected(g) ==
    /\ boot # "exited" /\ rpc[g] = "awaitDocUpload"
    /\ RegLog(g, <<RegRejected("uploadFile")>>)
    /\ RegCatch(g, rreq[g].file, proc, Str("upload failed"))
    /\ UNCHANGED <<boot, rreq, rloc>>
    /\ UNCHANGED <<srvVars, encVars, nftVars>>

\* the PDF is generated; it is uploaded
PdfResolved(g) ==
    /\ boot # "exited" /\ rpc[g] = "awaitPdf"
    /\ RegLog(g, <<RegResolved("generateBirthCertificatePDF"),
                   RegCall("uploadFile", Str("certificate"))>>)
    /\ rpc' = [rpc EXCEPT ![g] = "awaitCertUpload"]
    /\ UNCHANGED <<boot, proc, rreq, rloc, rresp>>
    /\ UNCHANGED <<srvVars, encVars, nftVars>>

PdfRejected(g) ==
    /\ boot # "exited" /\ rpc[g] = "awaitPdf"
    /\ RegLog(g, <<RegRejected("generateBirthCertificatePDF")>>)
    /\ RegCatch(g, rreq[g].file, proc, Str("pdf failed"))
    /\ UNCHANGED <<boot, rreq, rloc>>
    /\ UNCHANGED <<srvVars, encVars, nftVars>>

\* the certificate is stored; index.js uploads the SVG image next, part_000
\* the metadata
CertUploadResolved(g) ==
    /\ boot # "exited" /\ rpc[g] = "awaitCertUpload"
    /\ rloc' = [rloc EXCEPT ![g].certificateCid = Cid("certificate", g)]
    /\ IF proc.build = "index.js"
       THEN /\ RegLog(g, <<RegResolved("uploadFile"), RegCall("uploadFile", Str("image"))>>)
            /\ rpc' = [rpc EXCEPT ![g] = "awaitImageUpload"]
       ELSE /\ RegLog(g, <<RegResolved("uploadFile"), RegCall("uploadFile", Str("metadata"))>>)
            /\ rpc' = [rpc EXCEPT ![g] = "awaitMetaUpload"]
    /\ UNCHANGED <<boot, proc, rreq, rresp>>
    /\ UNCHANGED <<srvVars, encVars, nftVars>>

CertUploadRejected(g) ==
    /\ boot # "exited" /\ rpc[g] = "awaitCertUpload"
    /\ RegLog(g, <<RegRejected("uploadFile")>>)
    /\ RegCatch(g, rreq[g].file, proc, Str("upload failed"))
    /\ UNCHANGED <<boot, rreq, rloc>>
    /\ UNCHANGED <<srvVars, encVars, nftVars>>

ImageUploadResolved(g) ==
    /\ boot # "exited" /\ rpc[g] = "awaitImageUpload"
    /\ rloc' = [rloc EXCEPT ![g].imageCid = Cid("image", g)]
    /\ RegLog(g, <<RegResolved("uploadFile"), RegCall("uploadFile", Str("metadata"))>>)
    /\ rpc' = [rpc EXCEPT ![g] = "awaitMetaUpload"]
    /\ UNCHANGED <<boot, proc, rreq, rresp>>
    /\ UNCHANGED <<srvVars, encVars, nftVars>>

ImageUploadRejected(g) ==
    /\ boot # "exited" /\ rpc[g] = "awaitImageUpload"
    /\ RegLog(g, <<RegRejected("uploadFile")>>)
    /\ RegCatch(g, rreq[g].file, proc, Str("upload failed"))
    /\ UNCHANGED <<boot, rreq, rloc>>
    /\ UNCHANGED <<srvVars, encVars, nftVars>>

\* the metadata are stored; the NFT is minted if a contract and a valid
\* wallet are there, otherwise the handler answers
MetaUploadResolved(g) ==
    /\ boot # "exited" /\ rpc[g] = "awaitMetaUpload"
    /\ LET l == [rloc[g] EXCEPT !.metadataCid = Cid("metadata", g)]
       IN  /\ rloc' = [rloc EXCEPT ![g] = l]
           /\ IF WillMint(g)
              THEN /\ RegLog(g, <<RegResolved("uploadFile"),
                                  RegCall("mint", Obj([to |-> Get(rreq[g].birthData, "wallet"),
                                                       tokenURI |-> TokenURI(l)]))>>)
                   /\ rpc' = [rpc EXCEPT ![g] = "awaitMint"]
                   /\ rresp' = rresp
              ELSE /\ RegLog(g, <<RegResolved("uploadFile")>>)
                   /\ RegRespondSuccess(g, l)
    /\ UNCHANGED <<boot, proc, rreq>>
    /\ UNCHANGED <<srvVars, encVars, nftVars>>

MetaUploadRejected(g) ==
    /\ boot # "exited" /\ rpc[g] = "awaitMetaUpload"
    /\ RegLog(g, <<RegRejected("uploadFile")>>)
    /\ RegCatch(g, rreq[g].file, proc, Str("upload failed"))
    /\ UNCHANGED <<boot, rreq, rloc>>
    /\ UNCHANGED <<srvVars, encVars, nftVars>>

\* nftContract.mint(...) resolved: the transaction is sent
MintResolved(g) ==
    /\ boot # "exited" /\ rpc[g] = "awaitMint"
    /\ rloc' = [rloc EXCEPT ![g].tx = [hash |-> Str("0xtx-" \o g), minted |-> Null]]
    /\ RegLog(g, <<RegResolved("mint"), RegCall("tx.wait", Null)>>)
    /\ rpc' = [rpc EXCEPT ![g] = "awaitTxWait"]
    /\ UNCHANGED <<boot, proc, rreq, rresp>>
    /\ UNCHANGED <<srvVars, encVars, nftVars>>

\* mutant: a failed mint fails the registration
MintRejected_Fatal(g) ==
    /\ boot # "exited" /\ rpc[g] = "awaitMint"
    /\ RegLog(g, <<RegRejected("mint")>>)
    /\ RegCatch(g, rreq[g].file, proc, Str("mint failed"))
    /\ UNCHANGED <<boot, rreq, rloc>>
    /\ UNCHANGED <<srvVars, encVars, nftVars>>
\* nftContract.mint(...) rejected: the inner catch logs, the handler answers
MintRejected(g) ==
    /\ boot # "exited" /\ rpc[g] = "awaitMint"
    /\ RegLog(g, <<RegRejected("mint")>>)
    /\ RegRespondSuccess(g, rloc[g])
    /\ UNCHANGED <<boot, proc, rreq, rloc>>
    /\ UNCHANGED <<srvVars, encVars, nftVars>>

\* the transaction is mined: the contract ran mint(to, tokenURI) for the
\* server's wallet, the owner of the contract
TxWaitResolved(g) ==
    /\ boot # "exited" /\ rpc[g] = "awaitTxWait"
    /\ nft._tokenIdCounter < MaxTokens
    /\ LET to == Get(rreq[g].birthData, "wallet").v
           r == mint(nft, Deployer, to, TokenURI(rloc[g]))
       IN  /\ ~r.reverted
           /\ Mined("mint", r)
           /\ rloc' = [rloc EXCEPT ![g].nftTransactionHash = rloc[g].tx.hash,
                                   ![g].tx.minted = Num(r.ret)]
    /\ RegLog(g, <<RegResolved("tx.wait"), RegCall("getTransactionReceipt", Null)>>)
    /\ rpc' = [rpc EXCEPT ![g] = "awaitReceipt"]
    /\ UNCHANGED <<boot, proc, rreq, rresp>>
    /\ UNCHANGED <<srvVars, encVars>>

\* tx.wait() rejected (the transaction reverted or was never mined)
TxWaitRejected(g) ==
    /\ boot # "exited" /\ rpc[g] = "awaitTxWait"
    /\ RegLog(g, <<RegRejected("tx.wait")>>)
    /\ RegRespondSuccess(g, rloc[g])
    /\ UNCHANGED <<boot, proc, rreq, rloc>>
    /\ UNCHANGED <<srvVars, encVars, nftVars>>

\* the receipt arrived: the token ID is read from the Transfer log
ReceiptResolved(g) ==
    /\ boot # "exited" /\ rpc[g] = "awaitReceipt"
    /\ LET logs == MintLogs(Get(rreq[g].birthData, "wallet").v, rloc[g].tx.minted.v)
           found == {k \in 1..Len(logs) :
                        logs[k].topics[1] = Str("Transfer(address,address,uint256)")}
           mintEvent == IF found = {} THEN Undefined
                        ELSE logs[CHOOSE k \in found : \A m \in found : k <= m]
           l == IF mintEvent = Undefined THEN rloc[g]
                ELSE [rloc[g] EXCEPT !.nftTokenId = parseInt16(mintEvent.topics[4])]
       IN  /\ rloc' = [rloc EXCEPT ![g] = l]
           /\ RegLog(g, <<RegResolved("getTransactionReceipt")>>)
           /\ RegRespondSuccess(g, l)
    /\ UNCHANGED <<boot, proc, rreq>>
    /\ UNCHANGED <<srvVars, encVars, nftVars>>

\* getTransactionReceipt rejected, or it returned null and reading its logs
\* threw: the inner catch logs, the handler answers
ReceiptRejected(g) ==
    /\ boot # "exited" /\ rpc[g] = "awaitReceipt"
    /\ RegLog(g, <<RegRejected("getTransactionReceipt")>>)
    /\ RegRespondSuccess(g, rloc[g])
    /\ UNCHANGED <<boot, proc, rreq, rloc>>
    /\ UNCHANGED <<srvVars, encVars, nftVars>>

InitReg ==
    /\ env = [STORACHA_X_AUTH_SECRET |-> "secret", STORACHA_AUTH |-> "ucan",
              SPACE_DID |-> "did:key:space",
              GATEWAY_BASE |-> <<Str("https://w3s.link/ipfs"), Str("/")>>]
    /\ pc = [c \in Calls |-> "idle"]
    /\ req = [c \in Calls |-> Undefined]
    /\ local = [c \in Calls |-> NoLocals]
    /\ trace = [c \in Calls |-> <<>>]
    /\ responses = [c \in Calls |-> <<>>]
    /\ EncIdle
    /\ NftDeployed
    /\ RegIdle

NextReg ==
    \/ StartServer
    \/ CreateResolved
    \/ LoginResolved
    \/ PlanResolved
    \/ InitRejected
    \/ SpaceResolved
    \/ SpaceRejected
    \/ InitializeWeb3
    \/ Listen
    \/ Tick
    \/ \E g \in Regs :
        \/ RegBegin(g)
        \/ DocUploadResolved(g)
        \/ DocUploadRejected(g)
        \/ PdfResolved(g)
        \/ PdfRejected(g)
        \/ CertUploadResolved(g)
        \/ CertUploadRejected(g)
        \/ ImageUploadResolved(g)
        \/ ImageUploadRejected(g)
        \/ MetaUploadResolved(g)
        \/ MetaUploadRejected(g)
        \/ MintResolved(g)
        \/ MintRejected(g)
        \/ TxWaitResolved(g)
        \/ TxWaitRejected(g)
        \/ ReceiptResolved(g)
        \/ ReceiptRejected(g)

SpecReg == InitReg /\ [][NextReg]_vars

\* ------------------------------------- C23 .. C27 (birth registration)
\* the answer of registration g, once it has one
Answered(g) == rpc[g] = "done" /\ Len(rresp[g]) = 1
Answer(g) == rresp[g][1]
Succeeded(g) == Answered(g) /\ Answer(g).status = 200
\* event e is in the log of registration g
Logged(g, e) == \E k \in 1..Len(rtrace[g]) : rtrace[g][k] = e
NotInitializedAnswer ==
    [status |-> 500, body |-> Json([error |-> Str("Storacha client not initialized")])]

C23_State ==
    /\ proc.listening => (boot = "running" /\ Truthy(proc.storachaClient))
    /\ \A g \in Regs :
        /\ rpc[g] # "idle" => Truthy(proc.storachaClient)
        /\ \A k \in 1..Len(rresp[g]) : rresp[g][k] # NotInitializedAnswer
    /\ proc.clientAssignments <= 1
    /\ Truthy(proc.storachaClient) <=> proc.clientAssignments = 1
C23_Step ==
    /\ Truthy(proc.storachaClient) => proc.storachaClient' = proc.storachaClient
    /\ \A g \in Regs : (rpc[g] = "idle" /\ rpc'[g] # "idle") => Truthy(proc.storachaClient)
\* C23: the server listens only after initializeStoracha completed, so every
\* /birth-registration request is handled with storachaClient non-null, the
\* 'Storacha client not initialized' answer is never given, and
\* storachaClient is assigned at most once and never changes afterwards.
C23_ClientInitializedOnce == [](C23_State) /\ [][C23_Step]_vars
C23_Witness == \E g \in Regs : Succeeded(g) /\ proc.clientAssignments = 1

\* the mint transaction of registration g was mined and its receipt obtained
MintSucceeded(g) ==
    /\ rloc[g].tx # Null
    /\ rloc[g].tx.minted # Null
    /\ Logged(g, RegResolved("getTransactionReceipt"))
\* C24: whenever the mint transaction of a registration succeeded, the nft
\* field of the answer is non-null and carries the minted token ID and the
\* transaction hash, the first token of the contract included.
C24_NftReportedForEveryToken ==
    \A g \in Regs :
        (Succeeded(g) /\ MintSucceeded(g)) =>
            /\ Get(Answer(g).body, "nft") # Null
            /\ Get(Get(Answer(g).body, "nft"), "tokenId") = rloc[g].tx.minted
            /\ Get(Get(Answer(g).body, "nft"), "transactionHash") = rloc[g].tx.hash

\* the mint call of registration g or its confirmation failed
MintFailed(g) == Logged(g, RegRejected("mint")) \/ Logged(g, RegRejected("tx.wait"))
\* C25: if the mint call or its confirmation fails after the uploads, the
\* registration answers success:true with the certificate and metadata
\* identifiers and nft:null; mint is called only directly after the metadata
\* upload resolved, with the token URI built from the metadata identifier.
C25_MintOptional ==
    \A g \in Regs :
        /\ (Answered(g) /\ MintFailed(g)) =>
            /\ Answer(g).status = 200
            /\ Get(Answer(g).body, "success") = Bool(TRUE)
            /\ Get(Get(Answer(g).body, "certificate"), "cid") = Cid("certificate", g)
            /\ Get(Get(Answer(g).body, "metadata"), "cid") = Cid("metadata", g)
            /\ Get(Answer(g).body, "nft") = Null
        /\ \A k \in 1..Len(rtrace[g]) :
            (rtrace[g][k].ev = "call" /\ rtrace[g][k].fn = "mint") =>
                /\ k > 2
                /\ rtrace[g][k - 2] = RegCall("uploadFile", Str("metadata"))
                /\ rtrace[g][k - 1] = RegResolved("uploadFile")
                /\ rloc[g].metadataCid = Cid("metadata", g)
                /\ Get(rtrace[g][k].args, "tokenURI") = StorachaLink(Cid("metadata", g))
C25_Witness ==
    \E g \in Regs : Succeeded(g) /\ Logged(g, RegRejected("tx.wait"))
                    /\ Get(Answer(g).body, "nft") = Null

\* C26: once a request that carried a supporting document is answered, its
\* temporary file is gone, and it was deleted exactly once; a file is never
\* deleted twice.
C26_TempFileRemovedOnce ==
    \A g \in Regs :
        /\ proc.unlinkCalls[g] <= 1
        /\ (Answered(g) /\ Truthy(rreq[g].file)) =>
            (g \notin proc.uploads /\ proc.unlinkCalls[g] = 1)
C26_Witness ==
    \E g \in Regs : /\ Answered(g) /\ Answer(g).status = 500
                    /\ Truthy(rreq[g].file)
                    /\ rloc[g].supportingDocumentCid # Null
                    /\ g \notin proc.uploads

\* C27: two registrations that both succeeded carry different certificate
\* IDs.
C27_CertificateIdsDistinct ==
    \A g, h \in Regs :
        (g # h /\ Succeeded(g) /\ Succeeded(h)) =>
            Get(Answer(g).body, "certificateId") # Get(Answer(h).body, "certificateId")

\* ------------------------------------------------ C28 .. C30 (contract)
\* the token exists: it has an owner
Exists(tokenId) == OwnerOf(nft, tokenId) # ZeroAddress
C28_State ==
    /\ assigned = [i \in 1..Len(assigned) |-> i - 1]
    /\ totalSupply(nft) = Len(assigned)
    /\ getCurrentTokenId(nft) = Len(assigned)
    /\ \A tokenId \in TokenIds : Exists(tokenId) <=> tokenId < Len(assigned)
C28_Step ==
    /\ nft'._tokenIdCounter >= nft._tokenIdCounter
    /\ lastCall'.reverted => nft' = nft
    /\ (lastCall'.fn = "transferFrom") => nft'._tokenIdCounter = nft._tokenIdCounter

\* C28: whatever mint, mintCertificate and transferFrom calls are made, the
\* token IDs returned are 0, 1, 2, ... in order, the counter never decreases,
\* a reverted call leaves the storage (and so the counter) unchanged, and
\* totalSupply() = getCurrentTokenId() = the number of successful mints.
C28_SequentialTokenIds == [](C28_State) /\ [][C28_Step]_vars

C28_Witness ==
    /\ Len(assigned) = 2
    /\ lastCall.fn = "mint" /\ lastCall.reverted
    /\ OwnerOf(nft, 0) = NoReceiver
    /\ nft.certificates[1].verified

\* C29: verifyCertificate(tokenId) returns true for every token that exists,
\* whether mint or mintCertificate created it, and reverts with 'Certificate
\* does not exist' for every token ID that was never minted.
C29_VerifyTrueForEveryToken ==
    \A tokenId \in TokenIds :
        LET r == verifyCertificate(nft, tokenId)
        IN IF Exists(tokenId) THEN ~r.reverted /\ r.ret = TRUE
           ELSE r.reverted /\ r.ret = Str("Certificate does not exist")

\* the token IDs owner holds
OwnedBy(owner) == {tokenId \in TokenIds : Exists(tokenId) /\ OwnerOf(nft, tokenId) = owner}
\* the call returned exactly the token IDs of owner, each once
ReturnsOwned(r, owner) ==
    /\ ~r.reverted
    /\ {r.ret[k] : k \in 1..Len(r.ret)} = OwnedBy(owner)
    /\ Len(r.ret) = Cardinality(OwnedBy(owner))
    /\ Len(r.ret) = nft._balances[owner]

\* C30 as stated: for every address, getCertificatesByOwner returns exactly
\* the token IDs the address owns, each once, as many as balanceOf(owner).
C30_ReturnsOwnedForEveryAddress ==
    Len(assigned) > 0 =>
        \A owner \in Addresses : ReturnsOwned(getCertificatesByOwner(nft, owner), owner)

\* C30: for every address other than address(0), getCertificatesByOwner
\* returns exactly the token IDs the address owns, each once, as many as
\* balanceOf(owner); for address(0), which owns none, the call reverts.
C30_ReturnsOwnedTokens ==
    /\ \A owner \in Addresses \ {ZeroAddress} :
          /\ ReturnsOwned(getCertificatesByOwner(nft, owner), owner)
          /\ ~balanceOf(nft, owner).reverted
          /\ balanceOf(nft, owner).ret = Len(getCertificatesByOwner(nft, owner).ret)
    /\ getCertificatesByOwner(nft, ZeroAddress).reverted
    /\ OwnedBy(ZeroAddress) = {}

C30_Witness ==
    /\ nft._tokenIdCounter = 3
    /\ OwnedBy("alice") = {0, 2}
    /\ OwnedBy(NoReceiver) = {1}
    /\ lastCall.fn = "transferFrom" /\ ~lastCall.reverted

====
